---------------------------- MODULE Spec2Model ----------------------------
(***************************************************************************)
(* Model of caret_analyze's Architecture facade                            *)
(* (src/src/caret_analyze/architecture/architecture.py).                   *)
(*                                                                         *)
(* The state is the four collections the Architecture owns (_nodes,        *)
(* _communications, _executors, _paths) plus `last`, the record of the     *)
(* most recent call: its name, its arguments and what it returned or       *)
(* raised.  Every public method is one action.  Exceptions are modelled by *)
(* the name of the Python exception class that reaches the caller.         *)
(***************************************************************************)
EXTENDS Integers, Sequences, FiniteSets, TLC

VARIABLES nodes, node_paths, comms, executors, paths, renames,
          context_updater, archs, last

vars == <<nodes, node_paths, comms, executors, paths, renames,
          context_updater, archs, last>>

(***************************************************************************)
(* Bounds of the model.                                                    *)
(***************************************************************************)
\* most named paths held at once
MaxPaths == 2
\* most state-changing rename_* calls in one behaviour
MaxRenames == 1

(***************************************************************************)
(* Values.                                                                 *)
(***************************************************************************)
\* Python's None
None == "None"

\* the exception classes of ..exceptions that the facade lets escape
ItemNotFoundError == "ItemNotFoundError"
MultipleItemFoundError == "MultipleItemFoundError"
InvalidArgumentError == "InvalidArgumentError"
UnsupportedTypeError == "UnsupportedTypeError"
\* a call that returned normally
Ok == "ok"

Errors == {ItemNotFoundError, MultipleItemFoundError, InvalidArgumentError,
           UnsupportedTypeError}

\* the call just made: its name, arguments, outcome and return value
Call(op, args, res, out) == [op |-> op, args |-> args, res |-> res, out |-> out]

\* Every name the model uses, in the order Python's sorted() puts str values.
NameOrder == <<"A", "A2", "B", "M", "Z", "cb1", "cb2", "cb9", "e1", "e2", "e9",
               "g1", "g2", "g9", "p1", "p2", "p3", "t", "u", "w">>

\* position of a name in Python's str order
Rank(n) == CHOOSE i \in DOMAIN NameOrder : NameOrder[i] = n

\* sorted(): insertion of x into an ascending sequence, after its equals
RECURSIVE InsertSorted(_, _)
InsertSorted(x, s) ==
    IF s = <<>> THEN <<x>>
    ELSE IF Rank(x) < Rank(Head(s)) THEN <<x>> \o s
    ELSE <<Head(s)>> \o InsertSorted(x, Tail(s))

RECURSIVE Sorted(_)
Sorted(s) == IF s = <<>> THEN <<>> ELSE InsertSorted(Head(s), Sorted(Tail(s)))

Range(s) == {s[i] : i \in DOMAIN s}

\* the indices of the items of s that satisfy Cond
Filter(s, Cond(_)) == {i \in DOMAIN s : Cond(s[i])}

RECURSIVE Flatten(_)
Flatten(ss) == IF ss = <<>> THEN <<>> ELSE Head(ss) \o Flatten(Tail(ss))

\* s without its element at index i (list.pop(i))
Pop(s, i) == [k \in 1..(Len(s) - 1) |-> IF k < i THEN s[k] ELSE s[k + 1]]

(***************************************************************************)
(* Value objects: what to_value() hands to callers and what callers pass   *)
(* in as the children of a PathStructValue.                                *)
(***************************************************************************)
NodePathValue(n, sub, pub, so, po) ==
    [kind |-> "node_path", node_name |-> n,
     subscribe_topic_name |-> sub, publish_topic_name |-> pub,
     subscription_construction_order |-> so,
     publisher_construction_order |-> po]

CommunicationValue(pn, sn, t, po, so) ==
    [kind |-> "communication", publish_node_name |-> pn,
     subscribe_node_name |-> sn, topic_name |-> t,
     publisher_construction_order |-> po,
     subscription_construction_order |-> so]

\* a child that is neither a NodePathStructValue nor a CommunicationStructValue
OtherValue == [kind |-> "other"]

PathValue(name, child) == [path_name |-> name, child |-> child]


(***************************************************************************)
(* Structs: the mutable objects the Architecture holds.                    *)
(*                                                                         *)
(* node_paths is the heap of NodePathStruct objects, indexed by identity:  *)
(* a node lists the identities of its current local paths, and a stored    *)
(* named path lists the identities of the objects add_path resolved, so a  *)
(* rename done through the node is seen through the named path, as with    *)
(* Python object references.  CommunicationStruct objects are never        *)
(* created or dropped after loading, so their index in comms is their      *)
(* identity.  A callback group is held by its executor and owned by the    *)
(* node whose index is `owner`.                                            *)
(***************************************************************************)
NodePathStruct(n, sub, pub, so, po) ==
    [node_name |-> n, subscribe_topic_name |-> sub, publish_topic_name |-> pub,
     subscription_construction_order |-> so,
     publisher_construction_order |-> po]

NodeStruct(n, ids) == [node_name |-> n, paths |-> ids]

CommunicationStruct(pn, sn, t, po, so) ==
    [publish_node_name |-> pn, subscribe_node_name |-> sn, topic_name |-> t,
     publisher_construction_order |-> po,
     subscription_construction_order |-> so]

CallbackGroupStruct(g, owner, n, cbs) ==
    [callback_group_name |-> g, owner |-> owner, node_name |-> n,
     callbacks |-> cbs]

ExecutorStruct(e, groups) == [executor_name |-> e, callback_groups |-> groups]

\* stored child of a PathStruct: a reference to a struct
NodePathRef(id) == [kind |-> "node_path", id |-> id]
CommunicationRef(i) == [kind |-> "communication", id |-> i]

PathStruct(name, child) == [path_name |-> name, child |-> child]

(***************************************************************************)
(* The loaded architecture: node A publishes t twice (construction orders  *)
(* 0 and 1) and u; node B subscribes t and u.  One executor per node.  No  *)
(* named path: ArchitectureReaderLttng.get_paths returns [].               *)
(***************************************************************************)
LoadedNodePaths ==
    << NodePathStruct("A", None, "t", 0, 0),
       NodePathStruct("A", None, "t", 0, 1),
       NodePathStruct("A", None, "u", 0, 0),
       NodePathStruct("B", "t", None, 0, 0),
       NodePathStruct("B", "u", None, 0, 0) >>

LoadedNodes == << NodeStruct("A", <<1, 2, 3>>), NodeStruct("B", <<4, 5>>) >>

LoadedCommunications ==
    << CommunicationStruct("A", "B", "t", 0, 0),
       CommunicationStruct("A", "B", "t", 1, 0),
       CommunicationStruct("A", "B", "u", 0, 0) >>

LoadedExecutors ==
    << ExecutorStruct("e1", <<CallbackGroupStruct("g1", 1, "A", <<"cb1">>)>>),
       ExecutorStruct("e2", <<CallbackGroupStruct("g2", 2, "B", <<"cb2">>)>>) >>

LoadedPaths == <<>>

(***************************************************************************)
(* to_value(): the immutable snapshot of a struct.                         *)
(***************************************************************************)
NodePathToValue(np) ==
    NodePathValue(np.node_name, np.subscribe_topic_name, np.publish_topic_name,
                  np.subscription_construction_order,
                  np.publisher_construction_order)

CommunicationToValue(c) ==
    CommunicationValue(c.publish_node_name, c.subscribe_node_name, c.topic_name,
                       c.publisher_construction_order,
                       c.subscription_construction_order)

ChildToValue(ref, heap, cs) ==
    IF ref.kind = "node_path" THEN NodePathToValue(heap[ref.id])
    ELSE CommunicationToValue(cs[ref.id])

PathToValue(p, heap, cs) ==
    PathValue(p.path_name,
              [i \in DOMAIN p.child |-> ChildToValue(p.child[i], heap, cs)])

(***************************************************************************)
(* Util.find_one(condition, items), given the indices that satisfy the     *)
(* condition: the single match, or the exception it raises.                *)
(***************************************************************************)
FindOne(matches) ==
    IF matches = {} THEN [res |-> ItemNotFoundError, idx |-> 0]
    ELSE IF Cardinality(matches) >= 2
         THEN [res |-> MultipleItemFoundError, idx |-> 0]
    ELSE [res |-> Ok, idx |-> CHOOSE i \in matches : TRUE]

(***************************************************************************)
(* Derived listings.                                                       *)
(***************************************************************************)
\* Architecture.path_names
PathNames(ps) ==
    Sorted([i \in DOMAIN SelectSeq(ps, LAMBDA v : v.path_name # None)
              |-> SelectSeq(ps, LAMBDA v : v.path_name # None)[i].path_name])

\* Architecture.node_names
NodeNames(ns) == Sorted([i \in DOMAIN ns |-> ns[i].node_name])

\* Architecture.executor_names
ExecutorNames(es) == Sorted([i \in DOMAIN es |-> es[i].executor_name])

(***************************************************************************)
(* Named-path CRUD.                                                        *)
(***************************************************************************)
\* add_path's is_target_node_path
IsTargetNodePath(c, np) ==
    /\ c.publish_topic_name = np.publish_topic_name
    /\ c.subscribe_topic_name = np.subscribe_topic_name
    /\ c.publisher_construction_order = np.publisher_construction_order
    /\ c.subscription_construction_order = np.subscription_construction_order

\* add_path's is_target_comm
IsTargetComm(c, comm) ==
    /\ c.publish_node_name = comm.publish_node_name
    /\ c.subscribe_node_name = comm.subscribe_node_name
    /\ c.topic_name = comm.topic_name
    /\ c.publisher_construction_order = comm.publisher_construction_order
    /\ c.subscription_construction_order = comm.subscription_construction_order

\* add_path's loop turn, were a node path found by its topics alone, the
\* first one taken, whatever the construction orders
ResolveChildByTopics(c, ns, heap, cs) ==
    IF c.kind = "node_path" THEN
        LET n == FindOne(Filter(ns, LAMBDA x : c.node_name = x.node_name))
        IN  IF n.res # Ok THEN [res |-> n.res, ref |-> None]
            ELSE LET ids == ns[n.idx].paths
                     hits == {j \in DOMAIN ids :
                                 /\ c.publish_topic_name
                                      = heap[ids[j]].publish_topic_name
                                 /\ c.subscribe_topic_name
                                      = heap[ids[j]].subscribe_topic_name}
                 IN  IF hits = {} THEN [res |-> ItemNotFoundError, ref |-> None]
                     ELSE [res |-> Ok,
                           ref |-> NodePathRef(ids[CHOOSE j \in hits :
                                                  \A k \in hits : j <= k])]
    ELSE IF c.kind = "communication" THEN
        LET k == FindOne(Filter(cs, LAMBDA x : IsTargetComm(c, x)))
        IN  IF k.res # Ok THEN [res |-> k.res, ref |-> None]
            ELSE [res |-> Ok, ref |-> CommunicationRef(k.idx)]
    ELSE [res |-> UnsupportedTypeError, ref |-> None]

\* one turn of add_path's loop: the struct child c resolves to, or the error
ResolveChild(c, ns, heap, cs) ==
    IF c.kind = "node_path" THEN
        LET n == FindOne(Filter(ns, LAMBDA x : c.node_name = x.node_name))
        IN  IF n.res # Ok THEN [res |-> n.res, ref |-> None]
            ELSE LET ids == ns[n.idx].paths
                     k == FindOne({j \in DOMAIN ids :
                                      IsTargetNodePath(c, heap[ids[j]])})
                 IN  IF k.res # Ok THEN [res |-> k.res, ref |-> None]
                     ELSE [res |-> Ok, ref |-> NodePathRef(ids[k.idx])]
    ELSE IF c.kind = "communication" THEN
        LET k == FindOne(Filter(cs, LAMBDA x : IsTargetComm(c, x)))
        IN  IF k.res # Ok THEN [res |-> k.res, ref |-> None]
            ELSE [res |-> Ok, ref |-> CommunicationRef(k.idx)]
    ELSE [res |-> UnsupportedTypeError, ref |-> None]

\* add_path, were the path_names check of lines 306-307 missing
AddPathOpNoDuplicateCheck(ps, ns, heap, cs, path_name, path_info) ==
    LET r == [i \in DOMAIN path_info.child |->
                 ResolveChild(path_info.child[i], ns, heap, cs)]
        bad == {i \in DOMAIN r : r[i].res # Ok}
    IN  IF bad # {}
        THEN [res |-> r[CHOOSE i \in bad : \A j \in bad : i <= j].res,
              paths |-> ps]
        ELSE [res |-> Ok,
              paths |-> Append(ps, PathStruct(path_name,
                                   [i \in DOMAIN r |-> r[i].ref]))]

\* add_path, were the children resolved before a failing one stored anyway
AddPathOpKeepingPrefix(ps, ns, heap, cs, path_name, path_info) ==
    IF path_name \in Range(PathNames(ps))
    THEN [res |-> InvalidArgumentError, paths |-> ps]
    ELSE LET r == [i \in DOMAIN path_info.child |->
                      ResolveChild(path_info.child[i], ns, heap, cs)]
             bad == {i \in DOMAIN r : r[i].res # Ok}
             first == CHOOSE i \in bad : \A j \in bad : i <= j
         IN  IF bad # {}
             THEN [res |-> r[first].res,
                   paths |-> Append(ps, PathStruct(path_name,
                                 [i \in 1..(first - 1) |-> r[i].ref]))]
             ELSE [res |-> Ok,
                   paths |-> Append(ps, PathStruct(path_name,
                                        [i \in DOMAIN r |-> r[i].ref]))]

\* Architecture.add_path: the outcome and the _paths list it leaves
AddPathOp(ps, ns, heap, cs, path_name, path_info) ==
    IF path_name \in Range(PathNames(ps))
    THEN [res |-> InvalidArgumentError, paths |-> ps]
    ELSE LET r == [i \in DOMAIN path_info.child |->
                      ResolveChild(path_info.child[i], ns, heap, cs)]
             bad == {i \in DOMAIN r : r[i].res # Ok}
         IN  IF bad # {}
             THEN [res |-> r[CHOOSE i \in bad : \A j \in bad : i <= j].res,
                   paths |-> ps]
             ELSE [res |-> Ok,
                   paths |-> Append(ps, PathStruct(path_name,
                                        [i \in DOMAIN r |-> r[i].ref]))]

\* remove_path, were an absent name passed over in silence
RemovePathOpSilent(ps, path_name) ==
    LET hits == {i \in DOMAIN ps : ps[i].path_name = path_name}
    IN  IF hits = {} THEN [res |-> Ok, paths |-> ps]
        ELSE [res |-> Ok,
              paths |-> Pop(ps, CHOOSE i \in hits : \A j \in hits : j <= i)]

\* Architecture.remove_path
RemovePathOp(ps, path_name) ==
    IF path_name \notin Range(PathNames(ps))
    THEN [res |-> InvalidArgumentError, paths |-> ps]
    ELSE LET hits == {i \in DOMAIN ps : ps[i].path_name = path_name}
             idx == CHOOSE i \in hits : \A j \in hits : j <= i
         IN  [res |-> Ok, paths |-> Pop(ps, idx)]

\* update_path taking a path without a name as one with nothing to remove
UpdatePathOpAddingUnnamed(ps, ns, heap, cs, path_name, path) ==
    IF path.path_name = None
    THEN AddPathOp(ps, ns, heap, cs, path_name, path)
    ELSE LET removed == RemovePathOp(ps, path.path_name)
         IN  IF removed.res # Ok THEN removed
             ELSE AddPathOp(removed.paths, ns, heap, cs, path_name, path)

\* Architecture.update_path
UpdatePathOp(ps, ns, heap, cs, path_name, path) ==
    IF path.path_name = None
    THEN [res |-> InvalidArgumentError, paths |-> ps]
    ELSE LET removed == RemovePathOp(ps, path.path_name)
         IN  IF removed.res # Ok THEN removed
             ELSE AddPathOp(removed.paths, ns, heap, cs, path_name, path)

\* get_path, were the path_names check of lines 279-280 missing
GetPathOpFindOnly(ps, heap, cs, path_name) ==
    LET k == FindOne(Filter(ps, LAMBDA x : x.path_name = path_name))
    IN  IF k.res # Ok THEN [res |-> k.res, out |-> None]
        ELSE [res |-> Ok, out |-> PathToValue(ps[k.idx], heap, cs)]

\* Architecture.get_path
GetPathOp(ps, heap, cs, path_name) ==
    IF path_name \notin Range(PathNames(ps))
    THEN [res |-> InvalidArgumentError, out |-> None]
    ELSE LET k == FindOne(Filter(ps, LAMBDA x : x.path_name = path_name))
         IN  IF k.res # Ok THEN [res |-> k.res, out |-> None]
             ELSE [res |-> Ok, out |-> PathToValue(ps[k.idx], heap, cs)]

(***************************************************************************)
(* Lookups.                                                                *)
(***************************************************************************)
\* NodeStruct.to_value(), as far as the model reads a node
NodeToValue(n, heap) ==
    [node_name |-> n.node_name,
     paths |-> [i \in DOMAIN n.paths |-> NodePathToValue(heap[n.paths[i]])]]

\* Architecture.callback_groups: every node's groups, node by node
CallbackGroups(ns, es) ==
    LET all == Flatten([e \in DOMAIN es |-> es[e].callback_groups])
    IN  Flatten([n \in DOMAIN ns |-> SelectSeq(all, LAMBDA g : g.owner = n)])

\* Architecture.callbacks
Callbacks(ns, es) ==
    LET gs == CallbackGroups(ns, es)
    IN  Flatten([g \in DOMAIN gs |-> gs[g].callbacks])

\* Architecture.get_node
GetNodeOp(ns, heap, node_name) ==
    LET k == FindOne(Filter(ns, LAMBDA x : x.node_name = node_name))
    IN  IF k.res = ItemNotFoundError
        THEN [res |-> ItemNotFoundError, out |-> None]
        ELSE IF k.res # Ok THEN [res |-> k.res, out |-> None]
        ELSE [res |-> Ok, out |-> NodeToValue(ns[k.idx], heap)]

\* Architecture.get_executor
GetExecutorOp(es, executor_name) ==
    LET k == FindOne(Filter(es, LAMBDA x : x.executor_name = executor_name))
    IN  IF k.res # Ok THEN [res |-> k.res, out |-> None]
        ELSE [res |-> Ok, out |-> es[k.idx]]

\* Architecture.get_callback_group
GetCallbackGroupOp(ns, es, callback_group_name) ==
    LET gs == CallbackGroups(ns, es)
        k == FindOne(Filter(gs,
                 LAMBDA x : x.callback_group_name = callback_group_name))
    IN  IF k.res # Ok THEN [res |-> k.res, out |-> None]
        ELSE [res |-> Ok, out |-> gs[k.idx]]

\* Architecture.get_callback
GetCallbackOp(ns, es, callback_name) ==
    LET cbs == Callbacks(ns, es)
        k == FindOne(Filter(cbs, LAMBDA x : x = callback_name))
    IN  IF k.res # Ok THEN [res |-> k.res, out |-> None]
        ELSE [res |-> Ok, out |-> cbs[k.idx]]

\* get_communication's keyword parameters: a construction order the call
\* does not pass is 0
DefaultOrder(a, keyword) == IF keyword \in DOMAIN a THEN a[keyword] ELSE 0

\* what get_communication's is_target_comm compares a communication with
GetCommunicationKey(a) ==
    CommunicationValue(a.publisher_node_name, a.subscription_node_name,
                       a.topic_name,
                       DefaultOrder(a, "publisher_construction_order"),
                       DefaultOrder(a, "subscription_construction_order"))

\* get_communication, were the construction orders not compared and the
\* first communication between the nodes on the topic returned
GetCommunicationOpByNames(cs, key) ==
    LET hits == {i \in DOMAIN cs :
                    /\ cs[i].publish_node_name = key.publish_node_name
                    /\ cs[i].subscribe_node_name = key.subscribe_node_name
                    /\ cs[i].topic_name = key.topic_name}
    IN  IF hits = {} THEN [res |-> ItemNotFoundError, out |-> None]
        ELSE [res |-> Ok,
              out |-> CommunicationToValue(
                          cs[CHOOSE i \in hits : \A j \in hits : i <= j])]

\* Architecture.get_communication; key is a CommunicationValue
GetCommunicationOp(cs, key) ==
    LET k == FindOne(Filter(cs, LAMBDA x : IsTargetComm(key, x)))
    IN  IF k.res # Ok THEN [res |-> k.res, out |-> None]
        ELSE [res |-> Ok, out |-> CommunicationToValue(cs[k.idx])]

(***************************************************************************)
(* Renaming.                                                               *)
(***************************************************************************)
\* Util.find_similar_one(target, items, key), given the items' keys: the set
\* of indices it may return, 0 standing for ItemNotFoundError.  An exact
\* match wins; without one the nearest name is taken if it is near enough.
\* The similarity measure and its threshold are not part of architecture.py,
\* so both outcomes are admitted for every item.
FindSimilarOne(target, keys) ==
    LET exact == {i \in DOMAIN keys : keys[i] = target}
    IN  IF exact # {} THEN {CHOOSE i \in exact : \A j \in exact : i <= j}
        ELSE {0} \cup DOMAIN keys

Renamed(name, src, dst) == IF name = src THEN dst ELSE name

\* NodeStruct.rename_node
NodeRenameNode(n, src, dst) ==
    [n EXCEPT !.node_name = Renamed(@, src, dst)]

\* NodeStruct.rename_node, on the local paths the node owns
NodePathRenameNode(np, src, dst) ==
    [np EXCEPT !.node_name = Renamed(@, src, dst)]

\* ExecutorStruct.rename_node
ExecutorRenameNode(e, src, dst) ==
    [e EXCEPT !.callback_groups =
        [g \in DOMAIN @ |-> [@[g] EXCEPT !.node_name = Renamed(@, src, dst)]]]

\* CommunicationStruct.rename_node
CommunicationRenameNode(c, src, dst) ==
    [c EXCEPT !.publish_node_name = Renamed(@, src, dst),
              !.subscribe_node_name = Renamed(@, src, dst)]

\* the identities of the local paths some node currently owns
OwnedNodePaths(ns) == UNION {Range(ns[n].paths) : n \in DOMAIN ns}

\* rename_node, were the loop over the communications missing
RenameNodeOpWithoutCommunications(ns, heap, es, cs, src, dst) ==
    [nodes |-> [n \in DOMAIN ns |-> NodeRenameNode(ns[n], src, dst)],
     node_paths |-> [id \in DOMAIN heap |->
                        IF id \in OwnedNodePaths(ns)
                        THEN NodePathRenameNode(heap[id], src, dst)
                        ELSE heap[id]],
     executors |-> [e \in DOMAIN es |-> ExecutorRenameNode(es[e], src, dst)],
     comms |-> cs]

\* Architecture.rename_node
RenameNodeOp(ns, heap, es, cs, src, dst) ==
    [nodes |-> [n \in DOMAIN ns |-> NodeRenameNode(ns[n], src, dst)],
     node_paths |-> [id \in DOMAIN heap |->
                        IF id \in OwnedNodePaths(ns)
                        THEN NodePathRenameNode(heap[id], src, dst)
                        ELSE heap[id]],
     executors |-> [e \in DOMAIN es |-> ExecutorRenameNode(es[e], src, dst)],
     comms |-> [c \in DOMAIN cs |-> CommunicationRenameNode(cs[c], src, dst)]]

\* NodeStruct.rename_topic, on the local paths the node owns
NodePathRenameTopic(np, src, dst) ==
    [np EXCEPT !.subscribe_topic_name = Renamed(@, src, dst),
               !.publish_topic_name = Renamed(@, src, dst)]

\* CommunicationStruct.rename_topic
CommunicationRenameTopic(c, src, dst) ==
    [c EXCEPT !.topic_name = Renamed(@, src, dst)]

\* Architecture.rename_topic
RenameTopicOp(ns, heap, cs, src, dst) ==
    [node_paths |-> [id \in DOMAIN heap |->
                        IF id \in OwnedNodePaths(ns)
                        THEN NodePathRenameTopic(heap[id], src, dst)
                        ELSE heap[id]],
     comms |-> [c \in DOMAIN cs |-> CommunicationRenameTopic(cs[c], src, dst)]]

\* rename_path, were a failed lookup passed over in silence
RenamePathOpSilent(ps, k, dst) ==
    IF k = 0 THEN [res |-> Ok, paths |-> ps]
    ELSE [res |-> Ok, paths |-> [ps EXCEPT ![k].path_name = dst]]

\* Architecture.rename_path, find_similar_one having returned index k
RenamePathOp(ps, k, dst) ==
    IF k = 0 THEN [res |-> ItemNotFoundError, paths |-> ps]
    ELSE [res |-> Ok, paths |-> [ps EXCEPT ![k].path_name = dst]]

\* Architecture.rename_executor, find_similar_one having returned index k
RenameExecutorOp(es, k, dst) ==
    IF k = 0 THEN [res |-> ItemNotFoundError, executors |-> es]
    ELSE [res |-> Ok, executors |-> [es EXCEPT ![k].executor_name = dst]]

\* rename_callback's cb_s: where each callback of the executors sits
ExecutorCallbackSlots(es) ==
    Flatten([e \in DOMAIN es |->
        Flatten([g \in DOMAIN es[e].callback_groups |->
            [c \in DOMAIN es[e].callback_groups[g].callbacks |-> <<e, g, c>>]])])

\* Architecture.rename_callback, find_similar_one having returned index k
RenameCallbackOp(es, k, dst) ==
    IF k = 0 THEN [res |-> ItemNotFoundError, executors |-> es]
    ELSE LET slot == ExecutorCallbackSlots(es)[k]
         IN  [res |-> Ok,
              executors |-> [es EXCEPT
                  ![slot[1]].callback_groups[slot[2]].callbacks[slot[3]] = dst]]

(***************************************************************************)
(* The arguments callers pass.                                             *)
(***************************************************************************)
PathNameArgs == {"p1", "p2"}

\* every child resolves, construction orders 0
ChildrenOrder0 ==
    << NodePathValue("A", None, "t", 0, 0),
       CommunicationValue("A", "B", "t", 0, 0),
       NodePathValue("B", "t", None, 0, 0) >>

\* every child resolves, publisher construction order 1
ChildrenOrder1 ==
    << NodePathValue("A", None, "t", 0, 1),
       CommunicationValue("A", "B", "t", 1, 0),
       NodePathValue("B", "t", None, 0, 0) >>

\* the last child names a topic no node path of B has
ChildrenNoNodePath ==
    << NodePathValue("A", None, "t", 0, 0),
       CommunicationValue("A", "B", "t", 0, 0),
       NodePathValue("B", "w", None, 0, 0) >>

\* the last child names a communication that does not exist
ChildrenNoCommunication ==
    << NodePathValue("A", None, "t", 0, 0),
       CommunicationValue("A", "B", "w", 0, 0) >>

\* the last child is of no supported kind
ChildrenUnsupported == << NodePathValue("A", None, "t", 0, 0), OtherValue >>

\* an unsupported child before one that names no node
ChildrenUnsupportedFirst ==
    << OtherValue, NodePathValue("Z", None, "t", 0, 0) >>

\* add_path's path_name and path_info: paths as search_paths returns them,
\* without a name
AddPathArgs ==
    { <<"p1", PathValue(None, ChildrenOrder0)>>,
      <<"p1", PathValue(None, ChildrenOrder1)>>,
      <<"p2", PathValue(None, ChildrenOrder1)>>,
      <<"p2", PathValue(None, ChildrenNoNodePath)>>,
      <<"p1", PathValue(None, ChildrenNoCommunication)>>,
      <<"p2", PathValue(None, ChildrenUnsupported)>>,
      <<"p1", PathValue(None, ChildrenUnsupportedFirst)>> }

\* update_path's path_name and path: a path named or not, under its own
\* name or another
UpdatePathArgs ==
    { <<"p1", PathValue(None, ChildrenOrder0)>>,
      <<"p1", PathValue("p1", ChildrenOrder0)>>,
      <<"p1", PathValue("p1", ChildrenUnsupported)>>,
      <<"p2", PathValue("p1", ChildrenOrder0)>>,
      <<"p2", PathValue("p2", ChildrenOrder1)>>,
      <<"p1", PathValue("p2", ChildrenNoCommunication)>> }

RenameNodeArgs == {<<"A", "A2">>, <<"A", "B">>, <<"Z", "A2">>}
RenameTopicArgs == {<<"u", "t">>, <<"u", "w">>, <<"w", "t">>}
RenamePathArgs == {<<"p1", "p2">>, <<"p2", "p1">>}
RenameExecutorArgs == {<<"e1", "e2">>, <<"e9", "e1">>}
RenameCallbackArgs == {<<"cb1", "cb2">>, <<"cb9", "cb1">>}

GetNodeArgs == {"A", "B"}
GetExecutorArgs == {"e1", "e2"}
GetCallbackGroupArgs == {"g1", "g9"}
GetCallbackArgs == {"cb1", "cb2"}
\* get_communication's positional arguments
GetCommunicationCall(pn, sn, t) ==
    [publisher_node_name |-> pn, subscription_node_name |-> sn,
     topic_name |-> t]

\* calls without construction orders, and one that passes the publisher's
GetCommunicationArgs ==
    { GetCommunicationCall("A", "B", "t"),
      GetCommunicationCall("A", "B", "w"),
      [publisher_node_name |-> "A", subscription_node_name |-> "B",
       topic_name |-> "t", publisher_construction_order |-> 1] }

(***************************************************************************)
(* The state machine.                                                      *)
(***************************************************************************)
\* Architecture.__init__
Init ==
    /\ nodes = LoadedNodes
    /\ node_paths = LoadedNodePaths
    /\ comms = LoadedCommunications
    /\ executors = LoadedExecutors
    /\ paths = LoadedPaths
    /\ renames = 0
    /\ archs = <<>>
    /\ context_updater = None
    /\ last = Call("__init__", None, Ok, None)

AddPath(path_name, path_info) ==
    LET r == AddPathOp(paths, nodes, node_paths, comms, path_name, path_info)
    IN  /\ Len(r.paths) <= MaxPaths
        /\ paths' = r.paths
        /\ last' = Call("add_path",
                        [path_name |-> path_name, path |-> path_info],
                        r.res, None)
        /\ UNCHANGED <<archs, context_updater, nodes, node_paths, comms, executors, renames>>

RemovePath(path_name) ==
    LET r == RemovePathOp(paths, path_name)
    IN  /\ paths' = r.paths
        /\ last' = Call("remove_path", [path_name |-> path_name], r.res, None)
        /\ UNCHANGED <<archs, context_updater, nodes, node_paths, comms, executors, renames>>

UpdatePath(path_name, path) ==
    LET r == UpdatePathOp(paths, nodes, node_paths, comms, path_name, path)
    IN  /\ paths' = r.paths
        /\ last' = Call("update_path",
                        [path_name |-> path_name, path |-> path], r.res, None)
        /\ UNCHANGED <<archs, context_updater, nodes, node_paths, comms, executors, renames>>

GetPath(path_name) ==
    LET r == GetPathOp(paths, node_paths, comms, path_name)
    IN  /\ last' = Call("get_path", [path_name |-> path_name], r.res, r.out)
        /\ UNCHANGED <<archs, context_updater, nodes, node_paths, comms, executors, paths, renames>>

GetNode(node_name) ==
    LET r == GetNodeOp(nodes, node_paths, node_name)
    IN  /\ last' = Call("get_node", [name |-> node_name], r.res, r.out)
        /\ UNCHANGED <<archs, context_updater, nodes, node_paths, comms, executors, paths, renames>>

GetExecutor(executor_name) ==
    LET r == GetExecutorOp(executors, executor_name)
    IN  /\ last' = Call("get_executor", [name |-> executor_name], r.res, r.out)
        /\ UNCHANGED <<archs, context_updater, nodes, node_paths, comms, executors, paths, renames>>

GetCallbackGroup(callback_group_name) ==
    LET r == GetCallbackGroupOp(nodes, executors, callback_group_name)
    IN  /\ last' = Call("get_callback_group", [name |-> callback_group_name],
                        r.res, r.out)
        /\ UNCHANGED <<archs, context_updater, nodes, node_paths, comms, executors, paths, renames>>

GetCallback(callback_name) ==
    LET r == GetCallbackOp(nodes, executors, callback_name)
    IN  /\ last' = Call("get_callback", [name |-> callback_name], r.res, r.out)
        /\ UNCHANGED <<archs, context_updater, nodes, node_paths, comms, executors, paths, renames>>

GetCommunication(a) ==
    LET r == GetCommunicationOp(comms, GetCommunicationKey(a))
    IN  /\ last' = Call("get_communication", a, r.res, r.out)
        /\ UNCHANGED <<archs, context_updater, nodes, node_paths, comms, executors, paths, renames>>

\* the rename budget: a call that changes nothing is always allowed
Budget(changed) ==
    /\ changed => renames < MaxRenames
    /\ renames' = IF changed THEN renames + 1 ELSE renames

RenameNode(src, dst) ==
    LET r == RenameNodeOp(nodes, node_paths, executors, comms, src, dst)
    IN  /\ Budget(<<r.nodes, r.node_paths, r.executors, r.comms>>
                    # <<nodes, node_paths, executors, comms>>)
        /\ nodes' = r.nodes
        /\ node_paths' = r.node_paths
        /\ executors' = r.executors
        /\ comms' = r.comms
        /\ last' = Call("rename_node", [src |-> src, dst |-> dst], Ok, None)
        /\ UNCHANGED <<archs, context_updater, paths>>

RenameTopic(src, dst) ==
    LET r == RenameTopicOp(nodes, node_paths, comms, src, dst)
    IN  /\ Budget(<<r.node_paths, r.comms>> # <<node_paths, comms>>)
        /\ node_paths' = r.node_paths
        /\ comms' = r.comms
        /\ last' = Call("rename_topic", [src |-> src, dst |-> dst], Ok, None)
        /\ UNCHANGED <<archs, context_updater, nodes, executors, paths>>

RenamePath(src, dst) ==
    \E k \in FindSimilarOne(src, [i \in DOMAIN paths |-> paths[i].path_name]) :
        LET r == RenamePathOp(paths, k, dst)
        IN  /\ Budget(r.paths # paths)
            /\ paths' = r.paths
            /\ last' = Call("rename_path", [src |-> src, dst |-> dst],
                            r.res, None)
            /\ UNCHANGED <<archs, context_updater, nodes, node_paths, comms, executors>>

RenameExecutor(src, dst) ==
    \E k \in FindSimilarOne(src,
                [i \in DOMAIN executors |-> executors[i].executor_name]) :
        LET r == RenameExecutorOp(executors, k, dst)
        IN  /\ Budget(r.executors # executors)
            /\ executors' = r.executors
            /\ last' = Call("rename_executor", [src |-> src, dst |-> dst],
                            r.res, None)
            /\ UNCHANGED <<archs, context_updater, nodes, node_paths, comms, paths>>

RenameCallback(src, dst) ==
    LET slots == ExecutorCallbackSlots(executors)
        names == [i \in DOMAIN slots |->
                     executors[slots[i][1]].callback_groups[slots[i][2]]
                         .callbacks[slots[i][3]]]
    IN  \E k \in FindSimilarOne(src, names) :
            LET r == RenameCallbackOp(executors, k, dst)
            IN  /\ Budget(r.executors # executors)
                /\ executors' = r.executors
                /\ last' = Call("rename_callback", [src |-> src, dst |-> dst],
                                r.res, None)
                /\ UNCHANGED <<archs, context_updater, nodes, node_paths, comms, paths>>

Next ==
    \/ \E a \in AddPathArgs : AddPath(a[1], a[2])
    \/ \E n \in PathNameArgs : RemovePath(n)
    \/ \E a \in UpdatePathArgs : UpdatePath(a[1], a[2])
    \/ \E n \in PathNameArgs : GetPath(n)
    \/ \E n \in GetNodeArgs : GetNode(n)
    \/ \E n \in GetExecutorArgs : GetExecutor(n)
    \/ \E n \in GetCallbackGroupArgs : GetCallbackGroup(n)
    \/ \E n \in GetCallbackArgs : GetCallback(n)
    \/ \E k \in GetCommunicationArgs : GetCommunication(k)
    \/ \E a \in RenameNodeArgs : RenameNode(a[1], a[2])
    \/ \E a \in RenameTopicArgs : RenameTopic(a[1], a[2])
    \/ \E a \in RenamePathArgs : RenamePath(a[1], a[2])
    \/ \E a \in RenameExecutorArgs : RenameExecutor(a[1], a[2])
    \/ \E a \in RenameCallbackArgs : RenameCallback(a[1], a[2])

Spec == Init /\ [][Next]_vars

(***************************************************************************)
(* search_paths, on an architecture whose nodes form the chain A -> M -> B. *)
(***************************************************************************)
ChainNodePaths ==
    << NodePathStruct("A", None, "t", 0, 0),
       NodePathStruct("M", "t", "u", 0, 0),
       NodePathStruct("B", "u", None, 0, 0) >>

ChainNodes ==
    << NodeStruct("A", <<1>>), NodeStruct("M", <<2>>), NodeStruct("B", <<3>>) >>

ChainCommunications ==
    << CommunicationStruct("A", "M", "t", 0, 0),
       CommunicationStruct("M", "B", "u", 0, 0) >>

\* search_paths' default_depth
default_depth == 15

\* w is s with some elements left out
RECURSIVE IsSubsequence(_, _)
IsSubsequence(w, s) ==
    IF w = <<>> THEN TRUE
    ELSE IF s = <<>> THEN FALSE
    ELSE IF Head(w) = Head(s) THEN IsSubsequence(Tail(w), Tail(s))
    ELSE IsSubsequence(w, Tail(s))

\* the nodes a chain of communications goes through
ChainNodeNames(cs, chain) ==
    <<cs[chain[1]].publish_node_name>>
        \o [i \in DOMAIN chain |-> cs[chain[i]].subscribe_node_name]

\* NodePathSearcher(...).search(*node_names, max_node_depth): the chains of
\* distinct communications, joined inside each node by a node path from the
\* topic received to the topic sent, that go through node_names in order and
\* through max_node_depth nodes at most
NodePathSearcherSearch(ns, heap, cs, node_names, max_node_depth) ==
    {chain \in UNION {[1..n -> DOMAIN cs] : n \in 1..Len(cs)} :
        /\ \A i, j \in DOMAIN chain : i # j => chain[i] # chain[j]
        /\ \A i \in 1..(Len(chain) - 1) :
              /\ cs[chain[i]].subscribe_node_name
                   = cs[chain[i + 1]].publish_node_name
              /\ \E n \in DOMAIN ns :
                    /\ ns[n].node_name = cs[chain[i]].subscribe_node_name
                    /\ \E k \in DOMAIN ns[n].paths :
                          /\ heap[ns[n].paths[k]].subscribe_topic_name
                               = cs[chain[i]].topic_name
                          /\ heap[ns[n].paths[k]].publish_topic_name
                               = cs[chain[i + 1]].topic_name
        /\ Len(chain) + 1 <= max_node_depth
        /\ IsSubsequence(node_names, ChainNodeNames(cs, chain))}

\* search_paths' `max_node_depth or default_depth`: Python's `or` takes the
\* right operand when the left is None or 0
MaxNodeDepthOrDefault(a) ==
    IF "max_node_depth" \in DOMAIN a /\ a.max_node_depth # 0
    THEN a.max_node_depth
    ELSE default_depth

\* what a search_paths call does, in order: the notices it prints, the
\* searcher it builds, the search it runs
SearchPathsEvents(depth) ==
    (IF depth > default_depth THEN <<"print not recommended">> ELSE <<>>)
        \o <<"NodePathSearcher", "search", "print completed">>

\* search_paths, were the node names checked only after the search
SearchPathsOpCheckingLate(ns, heap, cs, a) ==
    LET depth == MaxNodeDepthOrDefault(a)
    IN  IF \E i \in DOMAIN a.node_names :
              a.node_names[i] \notin Range(NodeNames(ns))
        THEN [res |-> ItemNotFoundError,
              out |-> [events |-> SearchPathsEvents(depth)]]
        ELSE [res |-> Ok,
              out |-> [events |-> SearchPathsEvents(depth),
                       max_node_depth |-> depth,
                       paths |-> {[i \in DOMAIN chain |->
                                      CommunicationToValue(cs[chain[i]])] :
                                  chain \in NodePathSearcherSearch(
                                      ns, heap, cs, a.node_names, depth)}]]

\* Architecture.search_paths; a.node_names are the positional arguments and
\* a.max_node_depth the keyword, if passed.  out.max_node_depth is the depth
\* handed to the searcher and out.paths what it returned, as the
\* communications of each path.
SearchPathsOp(ns, heap, cs, a) ==
    IF \E i \in DOMAIN a.node_names :
          a.node_names[i] \notin Range(NodeNames(ns))
    THEN [res |-> ItemNotFoundError, out |-> [events |-> <<>>]]
    ELSE LET depth == MaxNodeDepthOrDefault(a)
         IN  [res |-> Ok,
              out |-> [events |-> SearchPathsEvents(depth),
                       max_node_depth |-> depth,
                       paths |-> {[i \in DOMAIN chain |->
                                      CommunicationToValue(cs[chain[i]])] :
                                  chain \in NodePathSearcherSearch(
                                      ns, heap, cs, a.node_names, depth)}]]

SearchPathsWaypoints ==
    { <<"A", "B">>, <<"A", "M", "B">>, <<"B", "A">>, <<"A", "Z">>,
      <<"Z", "A">>, <<"M">>, <<"A", "M">> }

\* search_paths without max_node_depth, and with the depths 0, 1, 3 and 16
SearchPathsArgs ==
    {[node_names |-> w] : w \in SearchPathsWaypoints}
    \cup {[node_names |-> w, max_node_depth |-> d] :
             w \in SearchPathsWaypoints, d \in {0, 1, 3, 16}}

InitSearch ==
    /\ nodes = ChainNodes
    /\ node_paths = ChainNodePaths
    /\ comms = ChainCommunications
    /\ executors = <<>>
    /\ paths = <<>>
    /\ renames = 0
    /\ archs = <<>>
    /\ context_updater = None
    /\ last = Call("__init__", None, Ok, None)

SearchPaths(a) ==
    LET r == SearchPathsOp(nodes, node_paths, comms, a)
    IN  /\ last' = Call("search_paths", a, r.res, r.out)
        /\ UNCHANGED <<archs, context_updater, nodes, node_paths, comms, executors, paths, renames>>

NextSearch ==
    \/ \E a \in SearchPathsArgs : SearchPaths(a)
    \/ \E a \in RenameNodeArgs : RenameNode(a[1], a[2])

SpecSearch == InitSearch /\ [][NextSearch]_vars

(***************************************************************************)
(* combine_path.                                                           *)
(***************************************************************************)
\* combine_path's get_communication closure: it takes the two node names and
\* the topic, and calls self.get_communication without construction orders
CombineGetCommunication(cs, c) ==
    GetCommunicationOp(cs,
        GetCommunicationKey(GetCommunicationCall(c.publish_node_name,
                                                 c.subscribe_node_name,
                                                 c.topic_name)))

\* CombinePath's re-resolution of one child through the two closures: the
\* node's path with the child's topics and construction orders, or the
\* communication the closure returns
CombineResolveChild(c, ns, heap, cs) ==
    IF c.kind = "node_path" THEN
        LET n == GetNodeOp(ns, heap, c.node_name)
        IN  IF n.res # Ok THEN [res |-> n.res, out |-> None]
            ELSE LET k == FindOne({j \in DOMAIN n.out.paths :
                                      n.out.paths[j] = c})
                 IN  IF k.res # Ok THEN [res |-> k.res, out |-> None]
                     ELSE [res |-> Ok, out |-> n.out.paths[k.idx]]
    ELSE IF c.kind = "communication" THEN CombineGetCommunication(cs, c)
    ELSE [res |-> UnsupportedTypeError, out |-> None]

\* Architecture.combine_path: CombinePath(get_node, get_communication)
\* .combine(path_left, path_right)
CombinePathOp(ns, heap, cs, path_left, path_right) ==
    LET child == path_left.child \o path_right.child
        r == [i \in DOMAIN child |-> CombineResolveChild(child[i], ns, heap, cs)]
        bad == {i \in DOMAIN r : r[i].res # Ok}
    IN  IF bad # {}
        THEN [res |-> r[CHOOSE i \in bad : \A j \in bad : i <= j].res,
              out |-> None]
        ELSE [res |-> Ok,
              out |-> PathValue(None, [i \in DOMAIN r |-> r[i].out])]

\* the paths combine_path is given: as search_paths returns them, or named
CombinePathArgs ==
    { PathValue(None, ChildrenOrder0),
      PathValue("p1", ChildrenOrder1),
      PathValue(None, <<NodePathValue("B", "u", None, 0, 0)>>),
      PathValue(None, ChildrenNoCommunication),
      PathValue(None, ChildrenUnsupported) }

CombinePath(path_left, path_right) ==
    LET r == CombinePathOp(nodes, node_paths, comms, path_left, path_right)
    IN  /\ last' = Call("combine_path",
                        [path_left |-> path_left, path_right |-> path_right],
                        r.res, r.out)
        /\ UNCHANGED <<archs, context_updater, nodes, node_paths, comms, executors, paths, renames>>

NextCombine ==
    \/ \E l \in CombinePathArgs, r \in CombinePathArgs : CombinePath(l, r)
    \/ \E a \in RenameNodeArgs : RenameNode(a[1], a[2])
    \/ \E a \in RenameTopicArgs : RenameTopic(a[1], a[2])

SpecCombine == Init /\ [][NextCombine]_vars

(***************************************************************************)
(* ContextUpdater.  The node it is built on carries its paths with their   *)
(* message context; the working set _contexts is a list of dicts.          *)
(***************************************************************************)
MaxContexts == 4

\* MessageContext: orders is <<subscription order, publisher order>>, or <<>>
\* when the architecture file did not record them
MessageContext(type_name, sub, pub, orders) ==
    IF orders = <<>>
    THEN [type_name |-> type_name, subscription_topic_name |-> sub,
          publisher_topic_name |-> pub]
    ELSE [type_name |-> type_name, subscription_topic_name |-> sub,
          publisher_topic_name |-> pub,
          subscription_construction_order |-> orders[1],
          publisher_construction_order |-> orders[2]]

\* MessageContext.to_dict
to_dict(context) ==
    LET d == [context_type |-> context.type_name,
              subscription_topic_name |-> context.subscription_topic_name,
              publisher_topic_name |-> context.publisher_topic_name]
    IN  IF "subscription_construction_order" \in DOMAIN context
        THEN d @@ [subscription_construction_order |->
                       context.subscription_construction_order,
                   publisher_construction_order |->
                       context.publisher_construction_order]
        ELSE d

\* a node path as ContextUpdater reads it; the field message_context is
\* absent where Python holds None
ContextNodePath(sub, pub, so, po) ==
    [subscribe_topic_name |-> sub, publish_topic_name |-> pub,
     subscription_construction_order |-> so,
     publisher_construction_order |-> po]

\* path.message_context is not None
HasMessageContext(path) == "message_context" \in DOMAIN path

\* the contexts a node path may carry: none (<<>>) or one
WithMessageContext(path, cs) ==
    IF cs = <<>> THEN path ELSE path @@ [message_context |-> cs[1]]

\* ContextUpdater.__init__
ContextUpdaterInit(node) ==
    LET have == SelectSeq(node.paths, HasMessageContext)
    IN  [i \in DOMAIN have |-> to_dict(have[i].message_context)]

\* the dict update_message_context appends for a path without context
ContextOfPath(context_type, path) ==
    [context_type |-> context_type,
     subscription_topic_name |-> path.subscribe_topic_name,
     publisher_topic_name |-> path.publish_topic_name,
     publisher_construction_order |-> path.publisher_construction_order,
     subscription_construction_order |-> path.subscription_construction_order]

\* ContextUpdater.update_message_context: both loops run
ContextUpdaterUpdateMessageContext(contexts, node, context_type, sub, pub) ==
    LET overwritten ==
            [i \in DOMAIN contexts |->
                IF <<contexts[i].subscription_topic_name,
                     contexts[i].publisher_topic_name>> = <<sub, pub>>
                THEN [contexts[i] EXCEPT !.context_type = context_type]
                ELSE contexts[i]]
        bare == SelectSeq(node.paths, LAMBDA path :
                    /\ ~HasMessageContext(path)
                    /\ <<path.subscribe_topic_name, path.publish_topic_name>>
                           = <<sub, pub>>)
    IN  overwritten \o
        [i \in DOMAIN bare |-> ContextOfPath(context_type, bare[i])]

\* context.get(key, 0)
ContextGet(context, key) ==
    IF key \in DOMAIN context THEN context[key] ELSE 0

\* remove_callback_chain comparing the topic names and the context type only
ContextUpdaterRemoveCallbackChainByTopics(contexts, sub, so, pub, po) ==
    SelectSeq(contexts, LAMBDA context :
        <<context.subscription_topic_name, context.publisher_topic_name,
          context.context_type>> # <<sub, pub, "callback_chain">>)

\* ContextUpdater.remove_callback_chain
ContextUpdaterRemoveCallbackChain(contexts, sub, so, pub, po) ==
    SelectSeq(contexts, LAMBDA context :
        <<context.subscription_topic_name,
          ContextGet(context, "subscription_construction_order"),
          context.publisher_topic_name,
          ContextGet(context, "publisher_construction_order"),
          context.context_type>> # <<sub, so, pub, po, "callback_chain">>)

\* the nodes an updater is built on: three paths with distinct keys, each
\* with or without a context
ContextNodes ==
    { [node_name |-> "N",
       paths |->
         << WithMessageContext(ContextNodePath("t", "u", 0, 0), c1),
            WithMessageContext(ContextNodePath("t", "u", 0, 1), c2),
            WithMessageContext(ContextNodePath("t", "v", 0, 0), c3) >>] :
        c1 \in { <<>>,
                 <<MessageContext("callback_chain", "t", "u", <<0, 0>>)>>,
                 <<MessageContext("callback_chain", "t", "u", <<>>)>>,
                 <<MessageContext("use_latest_message", "t", "u", <<0, 0>>)>> },
        c2 \in { <<>>,
                 <<MessageContext("callback_chain", "t", "u", <<0, 1>>)>> },
        c3 \in { <<>>,
                 <<MessageContext("use_latest_message", "t", "v", <<0, 0>>)>> } }

UpdateMessageContextArgs ==
    { <<"use_latest_message", "t", "u">>, <<"callback_chain", "t", "v">>,
      <<"callback_chain", "t", "w">> }

RemoveCallbackChainArgs ==
    { <<"t", 0, "u", 0>>, <<"t", 0, "u", 1>>, <<"t", 0, "v", 0>> }

InitContext ==
    /\ nodes \in { <<n>> : n \in ContextNodes }
    /\ node_paths = <<>>
    /\ comms = <<>>
    /\ executors = <<>>
    /\ paths = <<>>
    /\ renames = 0
    /\ archs = <<>>
    /\ context_updater = [node |-> 1, contexts |-> ContextUpdaterInit(nodes[1])]
    /\ last = Call("__init__", None, Ok, None)

\* ContextUpdater(node)
NewContextUpdater(k) ==
    /\ context_updater' = [node |-> k, contexts |-> ContextUpdaterInit(nodes[k])]
    /\ last' = Call("ContextUpdater", nodes[k].node_name, Ok, None)
    /\ UNCHANGED <<archs, nodes, node_paths, comms, executors, paths, renames>>

UpdaterUpdateMessageContext(context_type, sub, pub) ==
    /\ LET c == ContextUpdaterUpdateMessageContext(context_updater.contexts,
                    nodes[context_updater.node], context_type, sub, pub)
       IN  /\ Len(c) <= MaxContexts
           /\ context_updater' = [context_updater EXCEPT !.contexts = c]
    /\ last' = Call("ContextUpdater.update_message_context",
                    <<context_type, sub, pub>>, Ok, None)
    /\ UNCHANGED <<archs, nodes, node_paths, comms, executors, paths, renames>>

UpdaterRemoveCallbackChain(sub, so, pub, po) ==
    /\ context_updater' =
          [context_updater EXCEPT !.contexts =
              ContextUpdaterRemoveCallbackChain(@, sub, so, pub, po)]
    /\ last' = Call("ContextUpdater.remove_callback_chain",
                    <<sub, so, pub, po>>, Ok, None)
    /\ UNCHANGED <<archs, nodes, node_paths, comms, executors, paths, renames>>

UpdaterGetMessageContexts ==
    /\ last' = Call("ContextUpdater.get_message_contexts", None, Ok,
                    context_updater.contexts)
    /\ UNCHANGED <<archs, context_updater, nodes, node_paths, comms, executors, paths, renames>>

NextContext ==
    \/ \E k \in DOMAIN nodes : NewContextUpdater(k)
    \/ \E a \in UpdateMessageContextArgs :
          UpdaterUpdateMessageContext(a[1], a[2], a[3])
    \/ \E a \in RemoveCallbackChainArgs :
          UpdaterRemoveCallbackChain(a[1], a[2], a[3], a[4])
    \/ UpdaterGetMessageContexts

SpecContext == InitContext /\ [][NextContext]_vars

(***************************************************************************)
(* The five node mutations.  A node carries its callbacks, the callbacks   *)
(* associated with its publisher, its variable passings and its paths.     *)
(***************************************************************************)
\* the callbacks of node N: cb1 subscribes t, cb2 and cb3 are timers
NodeCallbacks ==
    << [callback_name |-> "cb1", construction_order |-> 0,
        subscribe_topic_name |-> "t"],
       [callback_name |-> "cb2", construction_order |-> 0],
       [callback_name |-> "cb3", construction_order |-> 0] >>

\* node N as loaded: one subscription (t, 0), one publisher (u, 0) that no
\* callback is associated with, no variable passing, one path without
\* callbacks and without context
LoadedMutableNodes ==
    << [node_name |-> "N",
        callbacks |-> NodeCallbacks,
        publisher_callbacks |-> {},
        variable_passings |-> {},
        paths |-> << ContextNodePath("t", "u", 0, 0) >>] >>

\* callback.publish_topics: the publishers the callback is associated with
PublishTopics(node, callback_name) ==
    {<<b[1], b[2]>> : b \in {x \in node.publisher_callbacks :
                                x[3] = callback_name}}

\* node.publish_topic_names / node.subscribe_topic_names
PublishTopicNames(node) == {"u"}

SubscribeTopicNames(node) ==
    {node.callbacks[i].subscribe_topic_name :
        i \in {j \in DOMAIN node.callbacks :
                 "subscribe_topic_name" \in DOMAIN node.callbacks[j]}}

\* the callback sequences a node path can run through, in search order
CallbackChains ==
    << <<"cb1">>, <<"cb1", "cb2">>, <<"cb1", "cb3">>,
       <<"cb1", "cb2", "cb3">>, <<"cb1", "cb3", "cb2">> >>

\* chain leads from the subscription to the publisher: each callback hands
\* a variable to the next, and the last one publishes
IsCallbackPath(node, chain, pub, po) ==
    /\ \A i \in 1..(Len(chain) - 1) :
          <<chain[i], chain[i + 1]>> \in node.variable_passings
    /\ <<pub, po, chain[Len(chain)]>> \in node.publisher_callbacks

\* the context a recomputed path gets: the first given one of its key, else
\* callback_chain when it has callbacks, else none
ContextForPath(path, contexts) ==
    LET same == SelectSeq(contexts, LAMBDA context :
                   <<context.subscription_topic_name,
                     ContextGet(context, "subscription_construction_order"),
                     context.publisher_topic_name,
                     ContextGet(context, "publisher_construction_order")>>
                   = <<path.subscribe_topic_name,
                       path.subscription_construction_order,
                       path.publish_topic_name,
                       path.publisher_construction_order>>)
    IN  IF same # <<>>
        THEN <<MessageContext(same[1].context_type,
                              path.subscribe_topic_name,
                              path.publish_topic_name,
                              <<path.subscription_construction_order,
                                path.publisher_construction_order>>)>>
        ELSE IF "child" \in DOMAIN path
        THEN <<MessageContext("callback_chain",
                              path.subscribe_topic_name,
                              path.publish_topic_name,
                              <<path.subscription_construction_order,
                                path.publisher_construction_order>>)>>
        ELSE <<>>

\* NodeValuesLoaded._search_node_paths(node, contexts, max order): one path
\* per callback sequence from the subscription to the publisher, or one
\* path without callbacks when there is none, each with its context
search_node_paths(node, contexts) ==
    LET found == SelectSeq(CallbackChains,
                     LAMBDA chain : IsCallbackPath(node, chain, "u", 0))
        bare == ContextNodePath("t", "u", 0, 0)
        ps == IF found = <<>> THEN <<bare>>
              ELSE [i \in DOMAIN found |-> bare @@ [child |-> found[i]]]
    IN  [i \in DOMAIN ps |->
            WithMessageContext(ps[i], ContextForPath(ps[i], contexts))]

\* node.update_node_path(paths)
update_node_path(node, ps) == [node EXCEPT !.paths = ps]

\* Util.find_one(lambda x: x.node_name == node_name, self._nodes)
FindNode(ns, node_name) ==
    FindOne({i \in DOMAIN ns : ns[i].node_name = node_name})

\* Util.find_one(lambda x: x.callback_name == name, self.callbacks)
FindCallback(node, callback_name) ==
    node.callbacks[CHOOSE i \in DOMAIN node.callbacks :
                      node.callbacks[i].callback_name = callback_name]

\* the tail shared by the mutations: the node's paths searched again from
\* the node as it now is, with the given contexts
Recomputed(ns, k, node, contexts) ==
    [res |-> Ok,
     nodes |-> [ns EXCEPT ![k] =
                   update_node_path(node, search_node_paths(node, contexts))]]

\* Architecture.insert_publisher_callback
InsertPublisherCallbackOp(ns, node_name, publish_topic_name, callback_name, publisher_construction_order) ==
    LET f == FindNode(ns, node_name)
    IN  IF f.res # Ok THEN [res |-> f.res, nodes |-> ns]
        ELSE LET node == [ns[f.idx] EXCEPT !.publisher_callbacks = @ \cup
                            {<<publish_topic_name,
                               publisher_construction_order, callback_name>>}]
             IN  Recomputed(ns, f.idx, node, ContextUpdaterInit(node))

\* Architecture.remove_publisher_callback
RemovePublisherCallbackOp(ns, node_name, publish_topic_name, callback_name, publisher_construction_order) ==
    LET f == FindNode(ns, node_name)
    IN  IF f.res # Ok THEN [res |-> f.res, nodes |-> ns]
        ELSE LET node == [ns[f.idx] EXCEPT !.publisher_callbacks = @ \
                            {<<publish_topic_name,
                               publisher_construction_order, callback_name>>}]
             IN  Recomputed(ns, f.idx, node, ContextUpdaterInit(node))

\* Architecture.insert_variable_passing
InsertVariablePassingOp(ns, node_name, callback_name_write, callback_name_read) ==
    LET f == FindNode(ns, node_name)
    IN  IF f.res # Ok THEN [res |-> f.res, nodes |-> ns]
        ELSE LET node == [ns[f.idx] EXCEPT !.variable_passings = @ \cup
                            {<<callback_name_write, callback_name_read>>}]
             IN  Recomputed(ns, f.idx, node, ContextUpdaterInit(node))

\* the remove_callback_chain calls of remove_variable_passing, one per
\* publish topic of the read callback
RECURSIVE RemoveCallbackChains(_, _, _)
RemoveCallbackChains(contexts, callback_write, publish_topics) ==
    IF publish_topics = {} THEN contexts
    ELSE LET t == CHOOSE x \in publish_topics : TRUE
         IN  RemoveCallbackChains(
                 IF "subscribe_topic_name" \in DOMAIN callback_write
                 THEN ContextUpdaterRemoveCallbackChain(contexts,
                          callback_write.subscribe_topic_name,
                          callback_write.construction_order, t[1], t[2])
                 ELSE contexts,
                 callback_write, publish_topics \ {t})

\* Architecture.remove_variable_passing
RemoveVariablePassingOp(ns, node_name, callback_name_write, callback_name_read) ==
    LET f == FindNode(ns, node_name)
    IN  IF f.res # Ok THEN [res |-> f.res, nodes |-> ns]
        ELSE LET node == [ns[f.idx] EXCEPT !.variable_passings = @ \
                            {<<callback_name_write, callback_name_read>>}]
                 callback_write == FindCallback(node, callback_name_write)
                 publish_topics == PublishTopics(node, callback_name_read)
             IN  IF publish_topics # {}
                 THEN Recomputed(ns, f.idx, node,
                          RemoveCallbackChains(ContextUpdaterInit(node),
                              callback_write, publish_topics))
                 ELSE [res |-> Ok, nodes |-> [ns EXCEPT ![f.idx] = node]]

\* Architecture.update_message_context
UpdateMessageContextOp(ns, node_name, context_type, subscribe_topic_name, publish_topic_name) ==
    LET f == FindNode(ns, node_name)
    IN  IF f.res # Ok THEN [res |-> f.res, nodes |-> ns]
        ELSE IF publish_topic_name \notin PublishTopicNames(ns[f.idx])
        THEN [res |-> ItemNotFoundError, nodes |-> ns]
        ELSE IF subscribe_topic_name \notin SubscribeTopicNames(ns[f.idx])
        THEN [res |-> ItemNotFoundError, nodes |-> ns]
        ELSE Recomputed(ns, f.idx, ns[f.idx],
                 ContextUpdaterUpdateMessageContext(
                     ContextUpdaterInit(ns[f.idx]), ns[f.idx], context_type,
                     subscribe_topic_name, publish_topic_name))

\* the arguments of the five mutations: a node name, then a publisher with
\* a callback, two callbacks, or a context type with two topics
NodeMutationArgs ==
    [node_name |-> {"N", "Z"},
     publisher_callback |-> {<<"u", "cb2", 0>>, <<"u", "cb3", 0>>},
     variable_passing |-> {<<"cb1", "cb2">>, <<"cb2", "cb3">>},
     message_context |->
        { <<"use_latest_message", "t", "u">>, <<"callback_chain", "t", "u">>,
          <<"use_latest_message", "t", "w">>, <<"use_latest_message", "w", "u">> }]

InitNode ==
    /\ nodes = LoadedMutableNodes
    /\ node_paths = <<>>
    /\ comms = <<>>
    /\ executors = <<>>
    /\ paths = <<>>
    /\ renames = 0
    /\ archs = <<>>
    /\ context_updater = None
    /\ last = Call("__init__", None, Ok, None)

InsertPublisherCallback(n, a) ==
    LET r == InsertPublisherCallbackOp(nodes, n, a[1], a[2], a[3])
    IN  /\ nodes' = r.nodes
        /\ last' = Call("insert_publisher_callback", <<n>> \o a, r.res, None)
        /\ UNCHANGED <<archs, context_updater, node_paths, comms, executors, paths, renames>>

RemovePublisherCallback(n, a) ==
    LET r == RemovePublisherCallbackOp(nodes, n, a[1], a[2], a[3])
    IN  /\ nodes' = r.nodes
        /\ last' = Call("remove_publisher_callback", <<n>> \o a, r.res, None)
        /\ UNCHANGED <<archs, context_updater, node_paths, comms, executors, paths, renames>>

InsertVariablePassing(n, a) ==
    LET r == InsertVariablePassingOp(nodes, n, a[1], a[2])
    IN  /\ nodes' = r.nodes
        /\ last' = Call("insert_variable_passing", <<n>> \o a, r.res, None)
        /\ UNCHANGED <<archs, context_updater, node_paths, comms, executors, paths, renames>>

RemoveVariablePassing(n, a) ==
    LET r == RemoveVariablePassingOp(nodes, n, a[1], a[2])
    IN  /\ nodes' = r.nodes
        /\ last' = Call("remove_variable_passing", <<n>> \o a, r.res, None)
        /\ UNCHANGED <<archs, context_updater, node_paths, comms, executors, paths, renames>>

UpdateMessageContext(n, a) ==
    LET r == UpdateMessageContextOp(nodes, n, a[1], a[2], a[3])
    IN  /\ nodes' = r.nodes
        /\ last' = Call("update_message_context", <<n>> \o a, r.res, None)
        /\ UNCHANGED <<archs, context_updater, node_paths, comms, executors, paths, renames>>

NextNode ==
    \/ \E n \in NodeMutationArgs.node_name,
          a \in NodeMutationArgs.publisher_callback :
          InsertPublisherCallback(n, a)
    \/ \E n \in NodeMutationArgs.node_name,
          a \in NodeMutationArgs.publisher_callback :
          RemovePublisherCallback(n, a)
    \/ \E n \in NodeMutationArgs.node_name,
          a \in NodeMutationArgs.variable_passing :
          InsertVariablePassing(n, a)
    \/ \E n \in NodeMutationArgs.node_name,
          a \in NodeMutationArgs.variable_passing :
          RemoveVariablePassing(n, a)
    \/ \E n \in NodeMutationArgs.node_name,
          a \in NodeMutationArgs.message_context :
          UpdateMessageContext(n, a)

SpecNode == InitNode /\ [][NextNode]_vars

(***************************************************************************)
(* DiffArchitecture.  archs holds the Architecture objects being compared. *)
(***************************************************************************)
\* a node of a compared architecture: its name and the topic names of its
\* publishers and of its subscriptions
DiffNode(n, pubs, subs) ==
    [node_name |-> n, publishers |-> pubs, subscriptions |-> subs]

\* the architectures compared: a talker and a listener; a relay added and a
\* topic only subscribed; two nodes of one name; no node at all
DiffArchitectures ==
    { << DiffNode("A", <<"t">>, <<>>), DiffNode("B", <<>>, <<"t">>) >>,
      << DiffNode("A", <<"t", "u">>, <<>>), DiffNode("M", <<"t">>, <<"u", "w">>) >>,
      << DiffNode("B", <<"u">>, <<>>), DiffNode("B", <<>>, <<"w">>) >>,
      << >> }

\* sorted(set): the elements of S in ascending order
RECURSIVE SortedSet(_)
SortedSet(S) ==
    IF S = {} THEN <<>>
    ELSE LET x == CHOOSE y \in S : \A z \in S : Rank(y) <= Rank(z)
         IN  <<x>> \o SortedSet(S \ {x})

\* Architecture.publishers / subscriptions: Util.flatten over the nodes
ArchPublisherTopics(arch) ==
    Flatten([i \in DOMAIN arch |-> arch[i].publishers])

ArchSubscriptionTopics(arch) ==
    Flatten([i \in DOMAIN arch |-> arch[i].subscriptions])

\* topic_names built from the publishers alone
TopicNamesOfPublishers(arch) ==
    SortedSet(Range(ArchPublisherTopics(arch)))

\* Architecture.topic_names
TopicNames(arch) ==
    SortedSet(Range(ArchPublisherTopics(arch))
                \cup Range(ArchSubscriptionTopics(arch)))

\* tuple(set): the elements of S once each, in the order the set yields them
TupleOfSet(S) ==
    {s \in [1..Cardinality(S) -> S] : Range(s) = S}

\* diff_node_names returning the names of each side without the subtraction
DiffNodeNamesOpWhole(left_arch, right_arch) ==
    [left_only |-> Range(NodeNames(left_arch)),
     right_only |-> Range(NodeNames(right_arch))]

\* DiffArchitecture.diff_node_names, before the two tuple() calls
DiffNodeNamesOp(left_arch, right_arch) ==
    LET set_left_node_names == Range(NodeNames(left_arch))
        set_right_node_names == Range(NodeNames(right_arch))
        common_node_names == set_left_node_names \cap set_right_node_names
    IN  [left_only |-> set_left_node_names \ common_node_names,
         right_only |-> set_right_node_names \ common_node_names]

\* DiffArchitecture.diff_topic_names, before the two tuple() calls
DiffTopicNamesOp(left_arch, right_arch) ==
    LET set_left_topics == Range(TopicNames(left_arch))
        set_right_topics == Range(TopicNames(right_arch))
        common_node_topics == set_left_topics \cap set_right_topics
    IN  [left_only |-> set_left_topics \ common_node_topics,
         right_only |-> set_right_topics \ common_node_topics]

InitDiff ==
    /\ archs \in {<<l, r>> : l \in DiffArchitectures, r \in DiffArchitectures}
    /\ nodes = <<>>
    /\ node_paths = <<>>
    /\ comms = <<>>
    /\ executors = <<>>
    /\ paths = <<>>
    /\ renames = 0
    /\ context_updater = None
    /\ last = Call("__init__", None, Ok, None)

\* Architecture.diff_node_names(archs[i], archs[j])
DiffNodeNames(i, j) ==
    \E l \in TupleOfSet(DiffNodeNamesOp(archs[i], archs[j]).left_only),
       o \in TupleOfSet(DiffNodeNamesOp(archs[i], archs[j]).right_only) :
        /\ last' = Call("diff_node_names", <<i, j>>, Ok, <<l, o>>)
        /\ UNCHANGED <<archs, context_updater, nodes, node_paths, comms, executors, paths, renames>>

\* Architecture.diff_topic_names(archs[i], archs[j])
DiffTopicNames(i, j) ==
    \E l \in TupleOfSet(DiffTopicNamesOp(archs[i], archs[j]).left_only),
       o \in TupleOfSet(DiffTopicNamesOp(archs[i], archs[j]).right_only) :
        /\ last' = Call("diff_topic_names", <<i, j>>, Ok, <<l, o>>)
        /\ UNCHANGED <<archs, context_updater, nodes, node_paths, comms, executors, paths, renames>>

NextDiff ==
    \/ \E i, j \in DOMAIN archs : DiffNodeNames(i, j)
    \/ \E i, j \in DOMAIN archs : DiffTopicNames(i, j)

SpecDiff == InitDiff /\ [][NextDiff]_vars

(***************************************************************************)
(* Architecture._verify, the check that closes __init__.                   *)
(***************************************************************************)
\* a callback as _verify reads it: its class, the parameter of that class
\* (period_ns, subscribe_topic_name or service_name), symbol and
\* construction order
VerifyCallback(callback_type_name, param, symbol, construction_order, callback_name) ==
    [callback_type_name |-> callback_type_name, param |-> param,
     symbol |-> symbol, construction_order |-> construction_order,
     callback_name |-> callback_name]

\* the callbacks a loaded node may have: none, one, equal timers (two and
\* three), timers that differ in construction order or symbol, equal
\* subscriptions next to a timer, callbacks of no known class, and two
\* duplicated keys at once
VerifyCallbackLists ==
    LET T(o, s, n) == VerifyCallback("timer_callback", 100, s, o, n)
        S(n) == VerifyCallback("subscription_callback", "t", "s1", 0, n)
        V(n) == VerifyCallback("service_callback", "srv", "s1", 0, n)
        X(n) == VerifyCallback("callback", 100, "s1", 0, n)
    IN  { <<>>,
          <<T(0, "s1", "cb1")>>,
          <<T(0, "s1", "cb1"), T(0, "s1", "cb2")>>,
          <<T(0, "s1", "cb1"), T(0, "s1", "cb2"), T(0, "s1", "cb3")>>,
          <<T(0, "s1", "cb1"), T(1, "s1", "cb2"), T(0, "s2", "cb3")>>,
          <<S("cb1"), T(0, "s1", "cb2"), S("cb3")>>,
          <<X("cb1"), X("cb2")>>,
          <<V("cb1"), T(0, "s1", "cb2"), T(0, "s1", "cb3"), V("cb4")>> }

\* node.callbacks: the callbacks of the node's callback groups, or nothing
\* (<<>> for None, else <<the list>>) for a node without callback groups
NodeCallbackList(es, n) ==
    LET all == Flatten([e \in DOMAIN es |-> es[e].callback_groups])
        own == SelectSeq(all, LAMBDA g : g.owner = n)
    IN  IF own = <<>> THEN <<>>
        ELSE <<Flatten([g \in DOMAIN own |-> own[g].callbacks])>>

\* callback_params: one tuple per callback of a known class
CallbackParams(callbacks) ==
    LET known == SelectSeq(callbacks, LAMBDA callback :
                    callback.callback_type_name \in
                       {"timer_callback", "subscription_callback",
                        "service_callback"})
    IN  [i \in DOMAIN known |->
            <<known[i].callback_type_name, known[i].param, known[i].symbol,
              known[i].construction_order>>]

\* Counter(callback_params).items(): each distinct tuple with its count, in
\* the order of first occurrence
CounterItems(params) ==
    LET first == SelectSeq([i \in DOMAIN params |-> i], LAMBDA i :
                    \A j \in 1..(i - 1) : params[j] # params[i])
    IN  [k \in DOMAIN first |->
            <<params[first[k]],
              Cardinality({j \in DOMAIN params : params[j] = params[first[k]]})>>]

\* the warnings of one node: one per tuple counted at least `least` times
NodeWarnings(node_name, callbacks, least) ==
    LET violated == SelectSeq(CounterItems(CallbackParams(callbacks)),
                              LAMBDA item : item[2] >= least)
    IN  [k \in DOMAIN violated |->
            [node_name |-> node_name, uniqueness_violated |-> violated[k][1]]]

\* _verify warning about every tuple, duplicated or not
VerifyOpWarningAlways(ns, es) ==
    Flatten([n \in DOMAIN ns |->
        IF NodeCallbackList(es, n) = <<>> THEN <<>>
        ELSE NodeWarnings(ns[n].node_name, NodeCallbackList(es, n)[1], 1)])

\* Architecture._verify: the warnings logged, node by node
VerifyOp(ns, es) ==
    Flatten([n \in DOMAIN ns |->
        IF NodeCallbackList(es, n) = <<>> THEN <<>>
        ELSE NodeWarnings(ns[n].node_name, NodeCallbackList(es, n)[1], 2)])

\* what ArchitectureLoaded hands to __init__: nodes A and B with a callback
\* group each and node M without one
InitVerify ==
    /\ nodes = << NodeStruct("A", <<>>), NodeStruct("B", <<>>),
                  NodeStruct("M", <<>>) >>
    /\ executors \in
          { << ExecutorStruct("e1",
                  << CallbackGroupStruct("g1", 1, "A", a),
                     CallbackGroupStruct("g2", 2, "B", b) >>) >> :
              a \in VerifyCallbackLists, b \in VerifyCallbackLists }
    /\ node_paths = <<>>
    /\ comms = <<>>
    /\ paths = <<>>
    /\ renames = 0
    /\ archs = <<>>
    /\ context_updater = None
    /\ last = Call("ArchitectureLoaded", None, Ok, None)

\* self._verify(self._nodes)
Verify ==
    /\ last' = Call("_verify", None, Ok, VerifyOp(nodes, executors))
    /\ UNCHANGED <<archs, context_updater, nodes, node_paths, comms, executors, paths, renames>>

\* Architecture.callbacks
GetCallbacks ==
    /\ last' = Call("callbacks", None, Ok, Callbacks(nodes, executors))
    /\ UNCHANGED <<archs, context_updater, nodes, node_paths, comms, executors, paths, renames>>

NextVerify == Verify \/ GetCallbacks

SpecVerify == InitVerify /\ [][NextVerify]_vars

(***************************************************************************)
(* Named paths over a node that is mutated.  The node's paths are          *)
(* references into node_paths, as are the children of the stored paths; a  *)
(* recomputation puts new structs on the heap and leaves the old ones to   *)
(* whoever still refers to them.                                           *)
(***************************************************************************)
\* most NodePathStruct objects ever created in one behaviour
MaxNodePaths == 3

\* the nodes with node.paths read through the references
NodesByValue(ns, heap) ==
    [k \in DOMAIN ns |->
        [ns[k] EXCEPT !.paths = [i \in DOMAIN @ |-> heap[@[i]]]]]

\* the nodes and the heap after a mutation left the nodes `new` (by value):
\* a node whose path list was replaced refers to structs created for it
WithNewNodePaths(ns, heap, new) ==
    LET old == NodesByValue(ns, heap)
        replaced == {k \in DOMAIN ns : new[k].paths # old[k].paths}
        created == Flatten([k \in DOMAIN ns |->
                      IF k \in replaced THEN new[k].paths ELSE <<>>])
        Before(k) == Len(Flatten([j \in 1..(k - 1) |->
                      IF j \in replaced THEN new[j].paths ELSE <<>>]))
    IN  [nodes |-> [k \in DOMAIN ns |->
                      [new[k] EXCEPT !.paths =
                          IF k \in replaced
                          THEN [i \in DOMAIN new[k].paths |->
                                   Len(heap) + Before(k) + i]
                          ELSE ns[k].paths]],
         node_paths |-> heap \o created]

InitStale ==
    /\ nodes = [k \in DOMAIN LoadedMutableNodes |->
                   [LoadedMutableNodes[k] EXCEPT !.paths = <<1>>]]
    /\ node_paths = LoadedMutableNodes[1].paths
    /\ comms = <<>>
    /\ executors = <<>>
    /\ paths = <<>>
    /\ renames = 0
    /\ archs = <<>>
    /\ context_updater = None
    /\ last = Call("__init__", None, Ok, None)

InsertPublisherCallbackByRef(n, a) ==
    LET r == InsertPublisherCallbackOp(NodesByValue(nodes, node_paths), n, a[1], a[2], a[3])
        w == WithNewNodePaths(nodes, node_paths, r.nodes)
    IN  /\ Len(w.node_paths) <= MaxNodePaths
        /\ nodes' = w.nodes
        /\ node_paths' = w.node_paths
        /\ last' = Call("insert_publisher_callback", <<n>> \o a, r.res, None)
        /\ UNCHANGED <<archs, context_updater, comms, executors, paths, renames>>

RemovePublisherCallbackByRef(n, a) ==
    LET r == RemovePublisherCallbackOp(NodesByValue(nodes, node_paths), n, a[1], a[2], a[3])
        w == WithNewNodePaths(nodes, node_paths, r.nodes)
    IN  /\ Len(w.node_paths) <= MaxNodePaths
        /\ nodes' = w.nodes
        /\ node_paths' = w.node_paths
        /\ last' = Call("remove_publisher_callback", <<n>> \o a, r.res, None)
        /\ UNCHANGED <<archs, context_updater, comms, executors, paths, renames>>

InsertVariablePassingByRef(n, a) ==
    LET r == InsertVariablePassingOp(NodesByValue(nodes, node_paths), n, a[1], a[2])
        w == WithNewNodePaths(nodes, node_paths, r.nodes)
    IN  /\ Len(w.node_paths) <= MaxNodePaths
        /\ nodes' = w.nodes
        /\ node_paths' = w.node_paths
        /\ last' = Call("insert_variable_passing", <<n>> \o a, r.res, None)
        /\ UNCHANGED <<archs, context_updater, comms, executors, paths, renames>>

RemoveVariablePassingByRef(n, a) ==
    LET r == RemoveVariablePassingOp(NodesByValue(nodes, node_paths), n, a[1], a[2])
        w == WithNewNodePaths(nodes, node_paths, r.nodes)
    IN  /\ Len(w.node_paths) <= MaxNodePaths
        /\ nodes' = w.nodes
        /\ node_paths' = w.node_paths
        /\ last' = Call("remove_variable_passing", <<n>> \o a, r.res, None)
        /\ UNCHANGED <<archs, context_updater, comms, executors, paths, renames>>

UpdateMessageContextByRef(n, a) ==
    LET r == UpdateMessageContextOp(NodesByValue(nodes, node_paths), n, a[1], a[2], a[3])
        w == WithNewNodePaths(nodes, node_paths, r.nodes)
    IN  /\ Len(w.node_paths) <= MaxNodePaths
        /\ nodes' = w.nodes
        /\ node_paths' = w.node_paths
        /\ last' = Call("update_message_context", <<n>> \o a, r.res, None)
        /\ UNCHANGED <<archs, context_updater, comms, executors, paths, renames>>

NextStale ==
    \/ AddPath("p1", PathValue(None, <<NodePathValue("N", "t", "u", 0, 0)>>))
    \/ \E n \in NodeMutationArgs.node_name,
          a \in NodeMutationArgs.publisher_callback :
          InsertPublisherCallbackByRef(n, a)
    \/ \E n \in NodeMutationArgs.node_name,
          a \in NodeMutationArgs.publisher_callback :
          RemovePublisherCallbackByRef(n, a)
    \/ \E n \in NodeMutationArgs.node_name,
          a \in NodeMutationArgs.variable_passing :
          InsertVariablePassingByRef(n, a)
    \/ \E n \in NodeMutationArgs.node_name,
          a \in NodeMutationArgs.variable_passing :
          RemoveVariablePassingByRef(n, a)
    \/ \E n \in NodeMutationArgs.node_name,
          a \in NodeMutationArgs.message_context :
          UpdateMessageContextByRef(n, a)

SpecStale == InitStale /\ [][NextStale]_vars

(***************************************************************************)
(* Properties.  `last` is the call just made; in an action property the    *)
(* unprimed collections are the state the call started from.               *)
(***************************************************************************)
Collections == <<nodes, node_paths, comms, executors, paths>>

StoredPathNames == {paths[i].path_name : i \in DOMAIN paths}

\* C1: once add_path(X, p) has succeeded, get_path(X) returns a path whose
\* children equal p's, element by element (kind, node names, topics and
\* construction orders), and X is one of path_names.
C1_AddThenGet ==
    (last.op = "add_path" /\ last.res = Ok) =>
        LET got == GetPathOp(paths, node_paths, comms, last.args.path_name)
        IN  /\ got.res = Ok
            /\ got.out.path_name = last.args.path_name
            /\ got.out.child = last.args.path.child
            /\ last.args.path_name \in Range(PathNames(paths))

\* C1's case: a three-child path with publisher construction order 1 was added
C1_Witness ==
    /\ last.op = "add_path"
    /\ last.res = Ok
    /\ last.args.path.child = ChildrenOrder1

\* C2: add_path under a name already in path_names raises the duplicate-name
\* error (InvalidArgumentError) and leaves the stored path list as it was.
C2_DuplicateNameRejected ==
    [][ (last'.op = "add_path" /\ last'.args.path_name \in StoredPathNames)
            => (last'.res = InvalidArgumentError /\ paths' = paths) ]_vars

\* C2's case: a resolvable path was refused because another path, with other
\* children, already has the name
C2_Witness ==
    /\ last.op = "add_path"
    /\ last.res = InvalidArgumentError
    /\ last.args.path.child = ChildrenOrder1
    /\ \E i \in DOMAIN paths :
          /\ paths[i].path_name = last.args.path_name
          /\ PathToValue(paths[i], node_paths, comms).child = ChildrenOrder0

C4_PathNamesUnique ==
    \A i, j \in DOMAIN paths :
        i # j => paths[i].path_name # paths[j].path_name

\* C5: node_names is sorted ascending, has no duplicate and is the set of the
\* owned nodes' names.
C5_NodeNamesSortedUnique ==
    LET names == NodeNames(nodes)
    IN  /\ \A i, j \in DOMAIN names : i < j => Rank(names[i]) < Rank(names[j])
        /\ Range(names) = {nodes[n].node_name : n \in DOMAIN nodes}

\* C6: an update_path call that raises leaves the stored paths exactly as
\* they were.
C6_UpdatePathAllOrNothing ==
    [][ (last'.op = "update_path" /\ last'.res # Ok) => paths' = paths ]_vars

\* the <<node index, path index>> pairs a node-path child names, by node
\* name, both topics and both construction orders
NodePathMatches(c) ==
    {nj \in (DOMAIN nodes) \X (DOMAIN node_paths) :
        /\ nj[2] \in DOMAIN nodes[nj[1]].paths
        /\ nodes[nj[1]].node_name = c.node_name
        /\ LET np == node_paths[nodes[nj[1]].paths[nj[2]]]
           IN  /\ np.publish_topic_name = c.publish_topic_name
               /\ np.subscribe_topic_name = c.subscribe_topic_name
               /\ np.publisher_construction_order
                      = c.publisher_construction_order
               /\ np.subscription_construction_order
                      = c.subscription_construction_order}

\* the communications a communication child names, by all five fields
CommunicationMatches(c) ==
    {i \in DOMAIN comms :
        /\ comms[i].publish_node_name = c.publish_node_name
        /\ comms[i].subscribe_node_name = c.subscribe_node_name
        /\ comms[i].topic_name = c.topic_name
        /\ comms[i].publisher_construction_order
               = c.publisher_construction_order
        /\ comms[i].subscription_construction_order
               = c.subscription_construction_order}

Unsupported(c) == c.kind \notin {"node_path", "communication"}

\* the child matches nothing that exists now
Unresolved(c) ==
    \/ c.kind = "node_path" /\ NodePathMatches(c) = {}
    \/ c.kind = "communication" /\ CommunicationMatches(c) = {}

\* the child names exactly one existing element, through a node name that
\* is itself unique
Resolves(c) ==
    \/ /\ c.kind = "node_path"
       /\ Cardinality(NodePathMatches(c)) = 1
       /\ Cardinality({n \in DOMAIN nodes :
                          nodes[n].node_name = c.node_name}) = 1
    \/ c.kind = "communication" /\ Cardinality(CommunicationMatches(c)) = 1

\* the child is a node path whose node name two or more nodes have
SharedNodeName(c) ==
    /\ c.kind = "node_path"
    /\ Cardinality({n \in DOMAIN nodes : nodes[n].node_name = c.node_name}) >= 2

\* the errors add_path's resolution of a child raises
UnresolvedReference == {ItemNotFoundError, MultipleItemFoundError}

\* C7: add_path with a child that matches no current node path or
\* communication, or that is of neither kind, raises and stores nothing, also
\* when earlier children resolved.  Under an unused name the first child that
\* does not resolve decides the error: UnsupportedTypeError if it is of
\* neither kind; an unresolved-reference error if it matches nothing, which is
\* ItemNotFoundError unless two nodes share the child's node name.
C7_BadChildRejected ==
    [][ LET child == last'.args.path.child
            bad == {i \in DOMAIN child :
                       Unsupported(child[i]) \/ Unresolved(child[i])}
            failing == {i \in DOMAIN child : ~Resolves(child[i])}
            first == CHOOSE i \in failing : \A j \in failing : i <= j
        IN  (last'.op = "add_path" /\ bad # {}) =>
              /\ last'.res \in Errors
              /\ paths' = paths
              /\ last'.args.path_name \notin StoredPathNames =>
                   /\ Unsupported(child[first])
                        => last'.res = UnsupportedTypeError
                   /\ Unresolved(child[first])
                        => /\ last'.res \in UnresolvedReference
                           /\ ~SharedNodeName(child[first])
                                => last'.res = ItemNotFoundError ]_vars

\* C7's case: with a path already stored, add_path under a new name raised
\* ItemNotFoundError on its third child after resolving the first two
C7_Witness ==
    /\ last.op = "add_path"
    /\ last.res = ItemNotFoundError
    /\ last.args.path.child = ChildrenNoNodePath
    /\ paths # <<>>
    /\ last.args.path_name \notin StoredPathNames

NodeNameSet == {nodes[n].node_name : n \in DOMAIN nodes}

\* C8: rename_node(A, A2) with a node A and no node A2 leaves A2 and not A in
\* node_names, and every publisher-side or subscriber-side node name of a
\* communication and every node name of an executor's callback group that
\* read A reads A2, the others reading what they read before.
C8_RenameNodePropagates ==
    [][ LET src == last'.args.src
            dst == last'.args.dst
        IN  ( /\ last'.op = "rename_node"
              /\ src \in NodeNameSet
              /\ dst \notin NodeNameSet ) =>
              /\ dst \in Range(NodeNames(nodes'))
              /\ src \notin Range(NodeNames(nodes'))
              /\ \A c \in DOMAIN comms :
                    /\ comms'[c].publish_node_name
                         = Renamed(comms[c].publish_node_name, src, dst)
                    /\ comms'[c].subscribe_node_name
                         = Renamed(comms[c].subscribe_node_name, src, dst)
                    /\ comms'[c].publish_node_name # src
                    /\ comms'[c].subscribe_node_name # src
              /\ \A e \in DOMAIN executors :
                    \A g \in DOMAIN executors[e].callback_groups :
                       /\ executors'[e].callback_groups[g].node_name
                            = Renamed(executors[e].callback_groups[g].node_name,
                                      src, dst)
                       /\ executors'[e].callback_groups[g].node_name # src
        ]_vars

\* C8's case: A was renamed to A2, and a communication and a callback group
\* that referred to A exist
C8_Witness ==
    /\ last.op = "rename_node"
    /\ last.args = [src |-> "A", dst |-> "A2"]
    /\ "A2" \in NodeNameSet
    /\ \E c \in DOMAIN comms : comms[c].publish_node_name = "A2"
    /\ \E e \in DOMAIN executors :
          \E g \in DOMAIN executors[e].callback_groups :
             executors[e].callback_groups[g].node_name = "A2"

RenameOps == {"rename_node", "rename_executor", "rename_path",
              "rename_callback", "rename_topic"}

ExecutorNameSeq == [e \in DOMAIN executors |-> executors[e].executor_name]

PathNameSeq == [i \in DOMAIN paths |-> paths[i].path_name]

\* the names of the callbacks the executors hold, in rename_callback's order
ExecutorCallbackNameSeq ==
    Flatten([e \in DOMAIN executors |->
        Flatten([g \in DOMAIN executors[e].callback_groups |->
            executors[e].callback_groups[g].callbacks])])

TopicNameSet ==
    {node_paths[i].subscribe_topic_name : i \in DOMAIN node_paths}
    \cup {node_paths[i].publish_topic_name : i \in DOMAIN node_paths}
    \cup {comms[i].topic_name : i \in DOMAIN comms}

\* the names the entities a rename_* call looks through have
NamesOfKind(op) ==
    CASE op = "rename_node" -> NodeNameSet
      [] op = "rename_executor" -> Range(ExecutorNameSeq)
      [] op = "rename_path" -> Range(PathNameSeq)
      [] op = "rename_callback" -> Range(ExecutorCallbackNameSeq)
      [] op = "rename_topic" -> TopicNameSet

\* names with the first element equal to src replaced by dst
FirstRenamed(names, src, dst) ==
    LET hits == {i \in DOMAIN names : names[i] = src}
        k == CHOOSE i \in hits : \A j \in hits : i <= j
    IN  [names EXCEPT ![k] = dst]

\* C9 as stated: each of the five rename_* calls fails with NotFound when
\* its lookups yield no target.  After a call that found a target some entity
\* bears the new name; so a call after which none bears the new name, nor the
\* source name, found none and has raised ItemNotFoundError.
C9_AllRenamesNotFound ==
    ( /\ last.op \in RenameOps
      /\ last.args.src \notin NamesOfKind(last.op)
      /\ last.args.dst \notin NamesOfKind(last.op) )
        => last.res = ItemNotFoundError

\* C9 amended: rename_executor, rename_path and rename_callback take the
\* first entity whose name equals src, else a near match, and raise
\* ItemNotFoundError, changing nothing, when there is neither; rename_node and
\* rename_topic do no lookup, never raise, and change nothing when no
\* reference equals src.
C9_LookupRenamesNotFound ==
    [][ LET op == last'.op
            src == last'.args.src
            dst == last'.args.dst
        IN  /\ op \in {"rename_executor", "rename_path", "rename_callback"} =>
                /\ last'.res \in {Ok, ItemNotFoundError}
                /\ last'.res = ItemNotFoundError
                     => (UNCHANGED Collections /\ src \notin NamesOfKind(op))
                /\ ( /\ src \notin NamesOfKind(op)
                     /\ dst \notin NamesOfKind(op)
                     /\ UNCHANGED Collections ) => last'.res = ItemNotFoundError
                /\ NamesOfKind(op) = {} => last'.res = ItemNotFoundError
                /\ src \in NamesOfKind(op) =>
                     /\ last'.res = Ok
                     /\ op = "rename_path"
                          => PathNameSeq' = FirstRenamed(PathNameSeq, src, dst)
                     /\ op = "rename_executor"
                          => ExecutorNameSeq'
                               = FirstRenamed(ExecutorNameSeq, src, dst)
                     /\ op = "rename_callback"
                          => ExecutorCallbackNameSeq'
                               = FirstRenamed(ExecutorCallbackNameSeq, src, dst)
            /\ op \in {"rename_node", "rename_topic"} =>
                /\ last'.res = Ok
                /\ src \notin NamesOfKind(op) => UNCHANGED Collections ]_vars

\* C9's case: rename_path raised ItemNotFoundError on an architecture that
\* holds no named path
C9_Witness ==
    /\ last.op = "rename_path"
    /\ last.res = ItemNotFoundError
    /\ paths = <<>>

LookupOps == {"get_node", "get_executor", "get_callback_group",
              "get_callback", "get_communication", "get_path"}

\* what the call in `last` asked for
LookupKey ==
    CASE last.op = "get_path" -> last.args.path_name
      [] last.op = "get_communication" -> GetCommunicationKey(last.args)
      [] OTHER -> last.args.name

\* the entities the call in `last` looks through: the key each is found by
\* and the value a caller gets for it
LookupCandidates ==
    CASE last.op = "get_node" ->
           [n \in DOMAIN nodes |->
               [key |-> nodes[n].node_name,
                value |-> NodeToValue(nodes[n], node_paths)]]
      [] last.op = "get_executor" ->
           [e \in DOMAIN executors |->
               [key |-> executors[e].executor_name, value |-> executors[e]]]
      [] last.op = "get_callback_group" ->
           LET gs == CallbackGroups(nodes, executors)
           IN  [g \in DOMAIN gs |->
                   [key |-> gs[g].callback_group_name, value |-> gs[g]]]
      [] last.op = "get_callback" ->
           LET cbs == Callbacks(nodes, executors)
           IN  [c \in DOMAIN cbs |-> [key |-> cbs[c], value |-> cbs[c]]]
      [] last.op = "get_communication" ->
           [c \in DOMAIN comms |->
               [key |-> CommunicationToValue(comms[c]),
                value |-> CommunicationToValue(comms[c])]]
      [] last.op = "get_path" ->
           [i \in DOMAIN paths |->
               [key |-> paths[i].path_name,
                value |-> PathToValue(paths[i], node_paths, comms)]]

LookupMatches ==
    {i \in DOMAIN LookupCandidates : LookupCandidates[i].key = LookupKey}

\* a lookup with one match returns it; with several it raises
\* MultipleItemFoundError
LookupFound ==
    /\ Cardinality(LookupMatches) = 1 =>
          /\ last.res = Ok
          /\ \A i \in LookupMatches : last.out = LookupCandidates[i].value
    /\ Cardinality(LookupMatches) >= 2 => last.res = MultipleItemFoundError

\* C10 as stated: each of the six get_* lookups returns the single match,
\* raises NotFound (ItemNotFoundError) when nothing matches, get_path
\* included, and AmbiguousMatch (MultipleItemFoundError) when several do.
C10_LookupsNotFound ==
    last.op \in LookupOps =>
        /\ LookupFound
        /\ LookupMatches = {} => last.res = ItemNotFoundError

\* C10 amended: each of the six get_* lookups returns the single match and
\* raises MultipleItemFoundError when several match; when nothing matches,
\* get_node, get_executor, get_callback_group, get_callback and
\* get_communication raise ItemNotFoundError and get_path raises
\* InvalidArgumentError.
C10_LookupsGetPathInvalidArgument ==
    last.op \in LookupOps =>
        /\ LookupFound
        /\ LookupMatches = {} =>
              last.res = IF last.op = "get_path" THEN InvalidArgumentError
                         ELSE ItemNotFoundError

\* C10's case: get_path was asked for a name no stored path has, while
\* another path is stored
C10_Witness ==
    /\ last.op = "get_path"
    /\ last.res = InvalidArgumentError
    /\ paths # <<>>
    /\ last.args.path_name \notin StoredPathNames

\* C11: get_communication returns a communication only if the two node
\* names, the topic and both construction orders equal what was asked for, an
\* omitted order counting as 0: the one such communication is returned with
\* exactly those fields, ItemNotFoundError is raised when there is none (as
\* for a topic no communication has), and a call that omits the orders never
\* returns a communication whose orders are not both 0.
C11_GetCommunicationExact ==
    last.op = "get_communication" =>
        LET a == last.args
            po == IF "publisher_construction_order" \in DOMAIN a
                  THEN a.publisher_construction_order ELSE 0
            so == IF "subscription_construction_order" \in DOMAIN a
                  THEN a.subscription_construction_order ELSE 0
            m == {i \in DOMAIN comms :
                     /\ comms[i].publish_node_name = a.publisher_node_name
                     /\ comms[i].subscribe_node_name = a.subscription_node_name
                     /\ comms[i].topic_name = a.topic_name
                     /\ comms[i].publisher_construction_order = po
                     /\ comms[i].subscription_construction_order = so}
        IN  /\ last.res = Ok =>
                /\ Cardinality(m) = 1
                /\ last.out.publish_node_name = a.publisher_node_name
                /\ last.out.subscribe_node_name = a.subscription_node_name
                /\ last.out.topic_name = a.topic_name
                /\ last.out.publisher_construction_order = po
                /\ last.out.subscription_construction_order = so
            /\ Cardinality(m) = 1 => last.res = Ok
            /\ m = {} => last.res = ItemNotFoundError
            /\ ( /\ "publisher_construction_order" \notin DOMAIN a
                 /\ "subscription_construction_order" \notin DOMAIN a
                 /\ last.res = Ok ) =>
                   /\ last.out.publisher_construction_order = 0
                   /\ last.out.subscription_construction_order = 0

\* C11's case: get_communication("A", "B", "t") returned the communication of
\* orders 0, 0 while another from A to B on t has publisher order 1
C11_Witness ==
    /\ last.op = "get_communication"
    /\ last.args = GetCommunicationCall("A", "B", "t")
    /\ last.res = Ok
    /\ last.out = CommunicationValue("A", "B", "t", 0, 0)
    /\ \E i \in DOMAIN comms :
          CommunicationToValue(comms[i]) = CommunicationValue("A", "B", "t", 1, 0)

\* C12: search_paths with a waypoint that is not in node_names raises
\* ItemNotFoundError before it prints a notice, builds the searcher or
\* searches, and leaves the architecture as it was.
C12_UnknownWaypointBeforeSearch ==
    [][ ( /\ last'.op = "search_paths"
          /\ \E i \in DOMAIN last'.args.node_names :
                last'.args.node_names[i] \notin NodeNameSet ) =>
            /\ last'.res = ItemNotFoundError
            /\ last'.out.events = <<>>
            /\ UNCHANGED Collections ]_vars

\* C12's case: search_paths("A", "Z", max_node_depth=16) was refused for the
\* unknown "Z", with a depth that would have brought a notice
C12_Witness ==
    /\ last.op = "search_paths"
    /\ last.args = [node_names |-> <<"A", "Z">>, max_node_depth |-> 16]
    /\ last.res = ItemNotFoundError
    /\ "A" \in NodeNameSet

\* C13: for every max_node_depth the caller passes, 0 included, the depth
\* handed to the searcher is the one passed and no returned path has more
\* nodes; default_depth is used only when none is passed.
C13_DepthBoundIsSupplied ==
    (last.op = "search_paths" /\ last.res = Ok) =>
        IF "max_node_depth" \in DOMAIN last.args
        THEN /\ last.out.max_node_depth = last.args.max_node_depth
             /\ \A p \in last.out.paths :
                   Len(p) + 1 <= last.args.max_node_depth
        ELSE last.out.max_node_depth = default_depth

\* C14: combine_path(left, right), when every child of both paths names
\* exactly one existing node path or communication, returns an unnamed path
\* whose children are left's followed by right's, each with the node, topics
\* and construction orders it had, a communication of non-zero order
\* included; with a child of neither kind among children that otherwise
\* resolve it raises UnsupportedTypeError and returns nothing.  The
\* architecture is unchanged either way.
C14_CombineKeepsChildren ==
    [][ LET child == last'.args.path_left.child \o last'.args.path_right.child
        IN  last'.op = "combine_path" =>
              /\ UNCHANGED Collections
              /\ (\A i \in DOMAIN child : Resolves(child[i])) =>
                    /\ last'.res = Ok
                    /\ last'.out.path_name = None
                    /\ last'.out.child = child
              /\ ( /\ \E i \in DOMAIN child : Unsupported(child[i])
                   /\ \A i \in DOMAIN child :
                         Unsupported(child[i]) \/ Resolves(child[i]) ) =>
                    /\ last'.res = UnsupportedTypeError
                    /\ last'.out = None ]_vars

\* the callback sequences of a list of node paths, with their topics and
\* construction orders
PathChildren(ps) ==
    { <<ps[i].subscribe_topic_name, ps[i].subscription_construction_order,
        ps[i].publish_topic_name, ps[i].publisher_construction_order,
        IF "child" \in DOMAIN ps[i] THEN ps[i].child ELSE <<>>>> :
        i \in DOMAIN ps }

MutationOps ==
    {"insert_publisher_callback", "remove_publisher_callback",
     "insert_variable_passing", "remove_variable_passing",
     "update_message_context"}

\* C15: after every successful insert_publisher_callback,
\* remove_publisher_callback, insert_variable_passing,
\* remove_variable_passing or update_message_context on node N, the paths N
\* holds are the ones the path search finds on N as the call left it,
\* whether or not the read callback of remove_variable_passing publishes;
\* and on a node name that no node has the call raises ItemNotFoundError
\* and changes nothing.
C15_NodePathsRecomputed ==
    [][ last'.op \in MutationOps =>
          LET n == last'.args[1]
              k == {i \in DOMAIN nodes : nodes[i].node_name = n}
          IN  /\ k = {} => (last'.res = ItemNotFoundError /\ UNCHANGED nodes)
              /\ last'.res = Ok =>
                    \A i \in k :
                       PathChildren(nodes'[i].paths)
                         = PathChildren(search_node_paths(nodes'[i], <<>>))
      ]_vars

\* the key of a context dict, a missing construction order read as 0
ContextKey(context) ==
    <<context.subscription_topic_name,
      ContextGet(context, "subscription_construction_order"),
      context.publisher_topic_name,
      ContextGet(context, "publisher_construction_order")>>

ContextTopics(context) ==
    <<context.subscription_topic_name, context.publisher_topic_name>>

\* C16: ContextUpdater.update_message_context(type, sub, pub) does exactly
\* one of three things.  With a working record of topic pair (sub, pub) it
\* sets the context_type of the records of that pair and appends nothing.
\* Otherwise it appends, for each node path of that pair without context,
\* one record of the given type with that path's construction orders.  With
\* neither, the working set is unchanged.  Records of another topic pair are
\* never modified.
C16_UpdateOverwritesOrAppends ==
    [][ last'.op = "ContextUpdater.update_message_context" =>
          LET pre == context_updater.contexts
              post == context_updater'.contexts
              type == last'.args[1]
              pair == <<last'.args[2], last'.args[3]>>
              node == nodes[context_updater.node]
              hit == \E i \in DOMAIN pre : ContextTopics(pre[i]) = pair
              bare == {j \in DOMAIN node.paths :
                          /\ ~HasMessageContext(node.paths[j])
                          /\ <<node.paths[j].subscribe_topic_name,
                               node.paths[j].publish_topic_name>> = pair}
          IN  /\ Len(post) >= Len(pre)
              /\ \A i \in DOMAIN pre :
                    IF ContextTopics(pre[i]) = pair
                    THEN post[i] = [pre[i] EXCEPT !.context_type = type]
                    ELSE post[i] = pre[i]
              /\ hit => Len(post) = Len(pre)
              /\ (~hit /\ bare # {}) =>
                    /\ Len(post) = Len(pre) + Cardinality(bare)
                    /\ \A j \in bare : \E i \in DOMAIN post :
                          /\ i > Len(pre)
                          /\ post[i] = ContextOfPath(type, node.paths[j])
              /\ (~hit /\ bare = {}) => post = pre ]_vars

\* C17: an updater built on a node whose paths carry at most one context
\* per key (subscribe topic, subscribe order, publish topic, publish order)
\* holds at most one working record per key, whatever update_message_context
\* and remove_callback_chain calls were made on it.
C17_OneContextPerKey ==
    \A i, j \in DOMAIN context_updater.contexts :
        ContextKey(context_updater.contexts[i])
            = ContextKey(context_updater.contexts[j]) => i = j

\* C18: ContextUpdater.remove_callback_chain(sub, sub_order, pub, pub_order)
\* removes exactly the records of context_type callback_chain whose two
\* topics and two construction orders (a missing order read as 0) equal the
\* arguments; the other records stay, in their order.  A second call with
\* the same arguments removes nothing more.
C18_RemoveCallbackChainExact ==
    [][ last'.op = "ContextUpdater.remove_callback_chain" =>
          LET pre == context_updater.contexts
              post == context_updater'.contexts
              a == last'.args
              Kept(context) ==
                  ~ ( /\ ContextKey(context) = <<a[1], a[2], a[3], a[4]>>
                      /\ context.context_type = "callback_chain" )
          IN  /\ post = SelectSeq(pre, Kept)
              /\ \A i \in DOMAIN post : Kept(post[i])
              /\ ContextUpdaterRemoveCallbackChain(post, a[1], a[2], a[3], a[4])
                    = post ]_vars

\* a remove_callback_chain('t', 0, 'u', 0) has removed the callback_chain
\* record of that key and kept one of the same topics and another publisher
\* order and one of the same key and another context type
C18_Witness ==
    /\ last.op = "ContextUpdater.remove_callback_chain"
    /\ last.args = <<"t", 0, "u", 0>>
    /\ \E i \in DOMAIN context_updater.contexts :
          /\ ContextKey(context_updater.contexts[i]) = <<"t", 0, "u", 1>>
          /\ context_updater.contexts[i].context_type = "callback_chain"
    /\ \E i \in DOMAIN context_updater.contexts :
          /\ ContextKey(context_updater.contexts[i]) = <<"t", 0, "u", 0>>
          /\ context_updater.contexts[i].context_type = "use_latest_message"

\* the set of node names of a compared architecture
ArchNodeNameSet(arch) == {arch[i].node_name : i \in DOMAIN arch}

\* the topic set of a compared architecture: the topic names of its
\* publishers and of its subscriptions
ArchTopicSet(arch) ==
    UNION {Range(arch[i].publishers) \cup Range(arch[i].subscriptions) :
              i \in DOMAIN arch}

\* C19: diff_node_names(A, A) returns two empty tuples, and
\* diff_node_names(A, B) returns the names of A not in B and the names of B
\* not in A, each once, so the two results share no name with each other or
\* with the common names.
C19_DiffNodeNames ==
    last.op = "diff_node_names" =>
        LET A == archs[last.args[1]]
            B == archs[last.args[2]]
            l == last.out[1]
            r == last.out[2]
        IN  /\ A = B => last.out = << <<>>, <<>> >>
            /\ Range(l) = ArchNodeNameSet(A) \ ArchNodeNameSet(B)
            /\ Range(r) = ArchNodeNameSet(B) \ ArchNodeNameSet(A)
            /\ Len(l) = Cardinality(Range(l))
            /\ Len(r) = Cardinality(Range(r))
            /\ Range(l) \cap Range(r) = {}
            /\ (Range(l) \cup Range(r))
                   \cap (ArchNodeNameSet(A) \cap ArchNodeNameSet(B)) = {}

\* two architectures with a common node name and a name of their own each
\* have been compared, and so has an architecture with itself
C19_Witness ==
    /\ last.op = "diff_node_names"
    /\ last.args = <<1, 2>>
    /\ last.out = << <<"B">>, <<"M">> >>

\* C20: diff_topic_names(A, B) returns the topics of A not in B and the
\* topics of B not in A, the topic set of an architecture being the topic
\* names of its publishers and of its subscriptions; a diff_topic_names(B, A)
\* that follows returns the same two sets in swapped order; and neither call
\* changes A or B.
C20_DiffTopicNamesSwap ==
    [][ last'.op = "diff_topic_names" =>
          LET A == archs[last'.args[1]]
              B == archs[last'.args[2]]
          IN  /\ Range(last'.out[1]) = ArchTopicSet(A) \ ArchTopicSet(B)
              /\ Range(last'.out[2]) = ArchTopicSet(B) \ ArchTopicSet(A)
              /\ ( /\ last.op = "diff_topic_names"
                   /\ last.args = <<last'.args[2], last'.args[1]>> ) =>
                     /\ Range(last'.out[1]) = Range(last.out[2])
                     /\ Range(last'.out[2]) = Range(last.out[1])
              /\ UNCHANGED archs ]_vars

\* diff_topic_names(B, A) has followed diff_topic_names(A, B) on two
\* architectures that each have a topic of their own, one of them a topic
\* that is only subscribed
C20_Witness ==
    /\ last.op = "diff_topic_names"
    /\ last.args = <<2, 1>>
    /\ archs[1] # archs[2]
    /\ "w" \in Range(last.out[1])
    /\ last.out[2] # <<>>

\* C21: update_path(name, path) with a path that has no name raises
\* InvalidArgumentError and leaves the stored paths as they were: nothing is
\* removed and nothing is added, whether or not name is stored.
C21_UnnamedPathRejected ==
    [][ ( /\ last'.op = "update_path"
          /\ last'.args.path.path_name = None ) =>
            /\ last'.res = InvalidArgumentError
            /\ paths' = paths ]_vars

\* update_path('p1', unnamed path) has been refused while p1 is stored
C21_Witness ==
    /\ last.op = "update_path"
    /\ last.args.path_name = "p1"
    /\ last.args.path.path_name = None
    /\ last.res = InvalidArgumentError
    /\ "p1" \in StoredPathNames

\* the callbacks of the callback groups of node n, in order
OwnedCallbacks(n) ==
    Flatten([e \in DOMAIN executors |->
        Flatten([g \in DOMAIN executors[e].callback_groups |->
            IF executors[e].callback_groups[g].owner = n
            THEN executors[e].callback_groups[g].callbacks ELSE <<>>])])

KnownCallbackClasses ==
    {"timer_callback", "subscription_callback", "service_callback"}

\* the identity key of a callback
IdentityKey(c) ==
    <<c.callback_type_name, c.param, c.symbol, c.construction_order>>

\* how many times x occurs in the sequence s
Occurrences(s, x) == Cardinality({i \in DOMAIN s : s[i] = x})

\* C22: the integrity check returns normally and leaves every node and
\* callback as it was; for every node and every identity key (class,
\* parameter, symbol, construction order) of its callbacks of a known class
\* it logs one warning when the key has two or more members and none when
\* it has one, and it logs nothing else, so nothing for a node without
\* callbacks or for callbacks of another class; and callbacks lists every
\* callback of every node as often as the node has it.
C22_VerifyWarnsPerKey ==
    [][ /\ last'.op = "_verify" =>
            /\ last'.res = Ok
            /\ UNCHANGED <<nodes, executors>>
            /\ \A n \in DOMAIN nodes :
                 LET cbs == OwnedCallbacks(n)
                     known == {i \in DOMAIN cbs :
                                  cbs[i].callback_type_name
                                      \in KnownCallbackClasses}
                 IN  \A i \in known :
                        Occurrences(last'.out,
                            [node_name |-> nodes[n].node_name,
                             uniqueness_violated |-> IdentityKey(cbs[i])])
                        = IF \E j \in known \ {i} :
                                 IdentityKey(cbs[j]) = IdentityKey(cbs[i])
                          THEN 1 ELSE 0
            /\ \A w \in DOMAIN last'.out :
                 \E n \in DOMAIN nodes :
                    /\ nodes[n].node_name = last'.out[w].node_name
                    /\ \E i \in DOMAIN OwnedCallbacks(n) :
                          /\ OwnedCallbacks(n)[i].callback_type_name
                                \in KnownCallbackClasses
                          /\ IdentityKey(OwnedCallbacks(n)[i])
                                = last'.out[w].uniqueness_violated
        /\ last'.op = "callbacks" =>
            /\ last'.res = Ok
            /\ \A n \in DOMAIN nodes : \A i \in DOMAIN OwnedCallbacks(n) :
                  Occurrences(last'.out, OwnedCallbacks(n)[i])
                    = Cardinality({<<m, j>> \in (DOMAIN nodes) \X (1..4) :
                          /\ j \in DOMAIN OwnedCallbacks(m)
                          /\ OwnedCallbacks(m)[j] = OwnedCallbacks(n)[i]})
      ]_vars

\* the check has run on an architecture where node A has three equal
\* timers and node B two callbacks of no known class: one warning, for A
C22_Witness ==
    /\ last.op = "_verify"
    /\ Len(OwnedCallbacks(1)) = 3
    /\ \A i \in DOMAIN OwnedCallbacks(1) :
          IdentityKey(OwnedCallbacks(1)[i]) = <<"timer_callback", 100, "s1", 0>>
    /\ Len(OwnedCallbacks(2)) = 2
    /\ \A i \in DOMAIN OwnedCallbacks(2) :
          OwnedCallbacks(2)[i].callback_type_name = "callback"
    /\ Len(last.out) = 1
    /\ last.out[1].node_name = "A"

\* C23: every node-path child of every stored named path is, by its topics,
\* construction orders, callbacks and message context, one of the paths
\* some node currently holds.
C23_StoredChildrenCurrent ==
    \A p \in DOMAIN paths : \A c \in DOMAIN paths[p].child :
        paths[p].child[c].kind = "node_path" =>
            \E n \in DOMAIN nodes : \E j \in DOMAIN nodes[n].paths :
                node_paths[nodes[n].paths[j]]
                    = node_paths[paths[p].child[c].id]

=============================================================================
